---- MODULE Spec2Model ----
(***************************************************************************)
(* Sponsor dock: inventory cache (getInventory), campaign selection        *)
(* (selectCampaign) and the GET /api/sponsor endpoint.                     *)
(*                                                                         *)
(* Conventions used throughout:                                            *)
(*  - a JS string is a TLA+ string; the empty string "" also stands for an *)
(*    absent (undefined) optional string, since the code only ever tests   *)
(*    such fields for truthiness;                                          *)
(*  - a date string (start_date, end_date, the result of toISOString) is a *)
(*    sequence of character codes, so that the code's lexicographic string *)
(*    comparison can be computed;                                          *)
(*  - a nullable result (CampaignRow | null) is a sequence of length <= 1: *)
(*    << >> is null, <<c>> is the campaign c;                              *)
(*  - time is in milliseconds, as Date.now() gives it.                     *)
(***************************************************************************)
EXTENDS Integers, Sequences, FiniteSets, TLC

(***************************************************************************)
(* Bounds of the model (not program constants).                            *)
(***************************************************************************)
MaxCampaigns == 2
RandDen == 4
\* The clock moves through the instants TimeAt(0), ..., TimeAt(MaxTicks).
MaxTicks == 5
\* Concurrent callers of getInventory.
MaxCalls == 2
\* Concurrent executions of verifyEmail_.
MaxVerifiers == 2

(***************************************************************************)
(* Program constants.                                                      *)
(***************************************************************************)
TTL_MS == 60000
STALE_MS == 300000
\* Token expiry, in minutes.
VERIFY_TOKEN_TTL_MIN == 1440

(***************************************************************************)
(* State.                                                                  *)
(***************************************************************************)
VARIABLES
    args,       \* selectCampaign: the argument object {campaigns, site, preferCampaignId, now}
    rnd,        \* selectCampaign: Math.random() is rnd / RandDen, in [0, 1)
    selected,   \* selectCampaign: the value returned (<< >> is null)
    selPc,      \* selectCampaign: "call" before the call, "done" after it
    clock,      \* Date.now(), in ms
    cache,      \* the module variable cache: << >> is null, else <<[value, fetchedAt]>>
    env,        \* whether SPONSOR_SHEET_ID / GOOGLE_SERVICE_ACCOUNT_JSON resolve to a non-empty value
    sheet,      \* the inventory the two tabs of the spreadsheet currently map to
    calls,      \* the getInventory calls, one per caller
    req,        \* GET /api/sponsor: the request being handled
    resp,       \* GET /api/sponsor: the response to it
    row,        \* a data row of the network_ads tab, keyed by the header row
    mapped,     \* what the row contributes to inventory.campaigns (<< >>: nothing)
    body,       \* the campaign object of the 200 response built from mapped (<< >>: none)
    rowPc,      \* "row", "mapped", "sent"
    dedupe,     \* POST /api/event: the Map dedupe, as [k, ts] pairs in insertion order
    rate,       \* POST /api/event: the Map rate, as [ip, windowStart, count] entries in insertion order
    evlog,      \* POST /api/event: the entries written by console.log, oldest first
    recent,     \* history: per client and instant less than 60 s ago, the events that got past the rate limit
    post,       \* POST /api/event: the last request handled and the response to it
    adsValues,  \* the values of network_ads!A1:Z1000: a sequence of rows of cells (<< >>: undefined)
    sitesValues, \* the values of network_sites!A1:Z1000
    built,      \* the inventory built from the two tabs (<< >>: not built yet)
    gridPc,     \* "read" once the two tabs are read, "built" after lines 252-258
    changedAt,  \* history: when the spreadsheet was last edited (-1: never)
    snap,       \* history: per caller, what the spreadsheet held when its call began
    contactSheet, \* the data rows of the contact_requests tab, in sheet order
    mailbox,    \* the mails sent by MailApp.sendEmail, oldest first
    verifier,   \* the executions of verifyEmail_, one per concurrent request
    rawEnv      \* the values of the two variables in import.meta.env and in process.env (<< >>: undefined)

selVars == <<args, rnd, selected, selPc>>
cacheVars == <<clock, cache, env, sheet, calls>>
getVars == <<req, resp>>
rowVars == <<row, mapped, body, rowPc>>
evVars == <<dedupe, rate, evlog, recent, post>>
gridVars == <<adsValues, sitesValues, built, gridPc>>
liveVars == <<changedAt, snap>>
contactVars == <<contactSheet, mailbox, verifier>>
vars == <<args, rnd, selected, selPc, clock, cache, env, sheet, calls, req, resp,
          row, mapped, body, rowPc, dedupe, rate, evlog, recent, post,
          adsValues, sitesValues, built, gridPc, changedAt, snap,
          contactSheet, mailbox, verifier, rawEnv>>

(***************************************************************************)
(* Strings as sequences of character codes.                                *)
(***************************************************************************)
\* JS string comparison a < b: lexicographic on code units, a proper prefix is smaller.
RECURSIVE StrLess(_, _)
StrLess(a, b) ==
    IF b = << >> THEN FALSE
    ELSE IF a = << >> THEN TRUE
    ELSE IF Head(a) # Head(b) THEN Head(a) < Head(b)
    ELSE StrLess(Tail(a), Tail(b))

\* The decimal digit d as a character code.
Digit(d) == 48 + d
Pad2(n) == <<Digit(n \div 10), Digit(n % 10)>>
Pad4(n) == <<Digit(n \div 1000), Digit((n \div 100) % 10), Digit((n \div 10) % 10), Digit(n % 10)>>

\* now.toISOString().slice(0, 10) for a valid Date whose UTC calendar date is
\* d = [y, m, d]: "YYYY-MM-DD", zero padded.
ToISODate(d) == Pad4(d.y) \o <<45>> \o Pad2(d.m) \o <<45>> \o Pad2(d.d)

(***************************************************************************)
(* selectCampaign and its helpers.                                         *)
(***************************************************************************)
\* Mutant: the bounds are exclusive.
MutWindowExclusive(now, start, end) ==
    LET today == ToISODate(now) IN
    IF start # << >> /\ (StrLess(today, start) \/ today = start) THEN FALSE
    ELSE IF end # << >> /\ (StrLess(end, today) \/ end = today) THEN FALSE
    ELSE TRUE

isWithinDateWindow(now, start, end) ==
    LET today == ToISODate(now) IN
    IF start # << >> /\ StrLess(today, start) THEN FALSE
    ELSE IF end # << >> /\ StrLess(end, today) THEN FALSE
    ELSE TRUE

\* Array.prototype.includes on a sequence.
Includes(seq, x) == \E i \in 1..Len(seq) : seq[i] = x

\* Mutant: the competitor exclusion is forgotten.
MutIsEligibleNoBlock(c, site, now) ==
    IF c.status # "active" THEN FALSE
    ELSE IF ~isWithinDateWindow(now, c.start_date, c.end_date) THEN FALSE
    ELSE TRUE

\* Mutant: the date window is forgotten.
MutIsEligibleNoDate(c, site, now) ==
    IF c.status # "active" THEN FALSE
    ELSE IF c.competitor_group # "" /\ Includes(site.blocked_competitor_groups, c.competitor_group) THEN FALSE
    ELSE TRUE

\* Mutant: a campaign with target groups is shown only on the sites that
\* belong to one of them.
MutIsEligibleTargeted(c, site, now) ==
    IF c.status # "active" THEN FALSE
    ELSE IF ~isWithinDateWindow(now, c.start_date, c.end_date) THEN FALSE
    ELSE IF c.competitor_group # "" /\ Includes(site.blocked_competitor_groups, c.competitor_group) THEN FALSE
    ELSE IF c.target_groups # << >> /\ ~\E i \in 1..Len(c.target_groups) : Includes(site.groups, c.target_groups[i]) THEN FALSE
    ELSE TRUE

\* The predicate of campaigns.filter(...) in selectCampaign.
IsEligible(c, site, now) ==
    IF c.status # "active" THEN FALSE
    ELSE IF ~isWithinDateWindow(now, c.start_date, c.end_date) THEN FALSE
    ELSE IF c.competitor_group # "" /\ Includes(site.blocked_competitor_groups, c.competitor_group) THEN FALSE
    ELSE TRUE

RECURSIVE FilterEligible(_, _, _)
FilterEligible(campaigns, site, now) ==
    IF campaigns = << >> THEN << >>
    ELSE (IF IsEligible(Head(campaigns), site, now) THEN <<Head(campaigns)>> ELSE << >>)
         \o FilterEligible(Tail(campaigns), site, now)

\* Mutant: c.weight without the "|| 1" default.
MutWeightOfNoDefault(c) == c.weight

\* c.weight || 1 : a falsy weight (absent, 0) counts as 1.  The weight 0
\* stands for every falsy weight.
WeightOf(c) == IF c.weight = 0 THEN 1 ELSE c.weight

RECURSIVE TotalWeight(_)
TotalWeight(eligible) ==
    IF eligible = << >> THEN 0
    ELSE WeightOf(Head(eligible)) + TotalWeight(Tail(eligible))

\* eligible.find(c => c.campaign_id === preferCampaignId): first match or << >>.
RECURSIVE Find(_, _)
Find(eligible, id) ==
    IF eligible = << >> THEN << >>
    ELSE IF Head(eligible).campaign_id = id THEN <<Head(eligible)>>
    ELSE Find(Tail(eligible), id)

\* The roulette loop.  The running remainder r is kept as the numerator rNum
\* of r = rNum / RandDen, so subtracting a weight w subtracts w * RandDen.
RECURSIVE Roulette(_, _, _)
Roulette(eligible, i, rNum) ==
    IF i > Len(eligible) THEN <<eligible[Len(eligible)]>>
    ELSE LET r2 == rNum - WeightOf(eligible[i]) * RandDen IN
         IF r2 <= 0 THEN <<eligible[i]>>
         ELSE Roulette(eligible, i + 1, r2)

\* Mutant: the preference is ignored, every call is a weighted draw.
MutSelectNoPreference(a, k) ==
    LET eligible == FilterEligible(a.campaigns, a.site, a.now)
    IN  IF Len(eligible) = 0 THEN << >>
        ELSE Roulette(eligible, 1, k * TotalWeight(eligible))

\* Mutant: the preferred campaign is looked up in the whole list, not among
\* the eligible ones.
MutSelectPreferAny(a, k) ==
    LET eligible == FilterEligible(a.campaigns, a.site, a.now)
        preferred == IF a.preferCampaignId # "" THEN Find(a.campaigns, a.preferCampaignId) ELSE << >>
    IN  IF Len(eligible) = 0 THEN << >>
        ELSE IF preferred # << >> THEN preferred
        ELSE Roulette(eligible, 1, k * TotalWeight(eligible))

selectCampaign(a, k) ==
    LET eligible == FilterEligible(a.campaigns, a.site, a.now)
        preferred == IF a.preferCampaignId # "" THEN Find(eligible, a.preferCampaignId) ELSE << >>
    IN  IF Len(eligible) = 0 THEN << >>
        ELSE IF preferred # << >> THEN preferred
        ELSE Roulette(eligible, 1, k * TotalWeight(eligible))

(***************************************************************************)
(* Inputs of selectCampaign.                                               *)
(***************************************************************************)
Today == [y |-> 2026, m |-> 11, d |-> 4]
Yesterday == [y |-> 2026, m |-> 11, d |-> 3]
Tomorrow == [y |-> 2026, m |-> 11, d |-> 5]

\* What can make a campaign ineligible, one cause at a time.  The dates are
\* relative to Today, the date of every call.
KindOpen    == [status |-> "active", competitor_group |-> "",  start_date |-> << >>, end_date |-> << >>]
KindGroupX  == [status |-> "active", competitor_group |-> "X", start_date |-> << >>, end_date |-> << >>]
KindPaused  == [status |-> "paused", competitor_group |-> "",  start_date |-> << >>, end_date |-> << >>]
KindFuture  == [status |-> "active", competitor_group |-> "",  start_date |-> ToISODate(Tomorrow), end_date |-> << >>]
KindExpired == [status |-> "active", competitor_group |-> "",  start_date |-> << >>, end_date |-> ToISODate(Yesterday)]
\* Open: nothing excludes it, or only the competitor group "X" on the sites
\* that block it.
OpenKinds == {KindOpen, KindGroupX}
\* Closed on every site: paused, not yet started, expired.
ClosedKinds == {KindPaused, KindFuture, KindExpired}

CampaignIds == {"a", "b"}
\* 0 is the falsy (absent) weight.
Weights == {0, 1, 3}

MkCampaign(id, w, k) ==
    [campaign_id |-> id, status |-> k.status, weight |-> w,
     competitor_group |-> k.competitor_group,
     start_date |-> k.start_date, end_date |-> k.end_date]

\* The closed kinds come with the largest weight only.
Campaigns ==
    { MkCampaign(id, w, k) : id \in CampaignIds, w \in Weights, k \in OpenKinds }
    \cup { MkCampaign(id, 3, k) : id \in CampaignIds, k \in ClosedKinds }

CampaignLists == UNION { [1..n -> Campaigns] : n \in 0..MaxCampaigns }

Sites ==
    { [site_id |-> "s1", status |-> "active", blocked_competitor_groups |-> b] :
         b \in { << >>, <<"X">> } }

\* The state of the parts of the program that a specification leaves alone.
IdleCall == [pc |-> "idle", now |-> 0, ext |-> FALSE, settled |-> "none", result |-> << >>, seen |-> << >>]
IdleReq == [pc |-> "idle", siteId |-> "", preferCampaignId |-> ""]
NoResp == [status |-> 0, error |-> "", campaignId |-> ""]
SelIdle ==
    /\ args = [campaigns |-> << >>, site |-> [site_id |-> "s1", status |-> "active", blocked_competitor_groups |-> << >>],
               preferCampaignId |-> "", now |-> Today]
    /\ rnd = 0
    /\ selected = << >>
    /\ selPc = "idle"
GetIdle == req = IdleReq /\ resp = NoResp
RowIdle == row = << >> /\ mapped = << >> /\ body = << >> /\ rowPc = "idle"
NoPost == [request |-> << >>, at |-> 0, status |-> 0, body |-> "", outcome |-> "none"]
EvIdle == dedupe = << >> /\ rate = << >> /\ evlog = << >> /\ recent = {} /\ post = NoPost
GridIdle == adsValues = << >> /\ sitesValues = << >> /\ built = << >> /\ gridPc = "idle"
LiveIdle == changedAt = -1 /\ snap = [c \in 1..MaxCalls |-> << >>]
IdleVerifier == [pc |-> "idle", token |-> << >>, match |-> 0, now |-> 0, page |-> << >>]
ContactIdle == contactSheet = << >> /\ mailbox = << >> /\ verifier = [p \in 1..MaxVerifiers |-> IdleVerifier]
\* Where rawEnv is not looked at, it is undefined throughout.
NoRawEnv == [vite |-> [sheetId |-> << >>, saJson |-> << >>], node |-> [sheetId |-> << >>, saJson |-> << >>]]
VariantIdle == rawEnv = NoRawEnv

SelInit ==
    /\ args \in [campaigns : CampaignLists, site : Sites,
                 preferCampaignId : {""} \cup CampaignIds \cup {"zz"}, now : {Today}]
    /\ rnd \in 0..(RandDen - 1)
    /\ selected = << >>
    /\ selPc = "call"
    /\ clock = 0 /\ cache = << >> /\ env = [sheetId |-> TRUE, saJson |-> TRUE]
    /\ sheet = [campaigns |-> << >>, sites |-> << >>]
    /\ calls = [c \in 1..MaxCalls |-> IdleCall]
    /\ GetIdle
    /\ RowIdle
    /\ EvIdle
    /\ GridIdle
    /\ LiveIdle
    /\ ContactIdle
    /\ VariantIdle

Select ==
    /\ selPc = "call"
    /\ selected' = selectCampaign(args, rnd)
    /\ selPc' = "done"
    /\ UNCHANGED <<args, rnd, cacheVars, getVars, rowVars, evVars, gridVars, liveVars, contactVars, rawEnv>>

SelNext == Select

SpecSelect == SelInit /\ [][SelNext]_vars

(***************************************************************************)
(* selectCampaign on one active campaign without competitor group, over    *)
(* the dates of now and of the two bounds.                                 *)
(***************************************************************************)
\* UTC calendar dates on both sides of a change of day, month, year and
\* number of digits of the month.
WinDates ==
    { Yesterday, Today, Tomorrow,
      [y |-> 2025, m |-> 12, d |-> 31], [y |-> 2026, m |-> 1, d |-> 1],
      [y |-> 2026, m |-> 2, d |-> 10],
      [y |-> 2026, m |-> 9, d |-> 30], [y |-> 2026, m |-> 10, d |-> 1],
      [y |-> 2027, m |-> 1, d |-> 1] }

\* start_date and end_date as the sheet holds them, "YYYY-MM-DD" or absent.
WinBounds == { << >> } \cup { ToISODate(d) : d \in WinDates }

WinInit ==
    /\ \E st \in WinBounds, en \in WinBounds, nw \in WinDates, site \in Sites :
          args = [campaigns |-> <<MkCampaign("a", 1,
                                    [status |-> "active", competitor_group |-> "",
                                     start_date |-> st, end_date |-> en])>>,
                  site |-> site, preferCampaignId |-> "", now |-> nw]
    /\ rnd \in 0..(RandDen - 1)
    /\ selected = << >>
    /\ selPc = "call"
    /\ clock = 0 /\ cache = << >> /\ env = [sheetId |-> TRUE, saJson |-> TRUE]
    /\ sheet = [campaigns |-> << >>, sites |-> << >>]
    /\ calls = [c \in 1..MaxCalls |-> IdleCall]
    /\ GetIdle
    /\ RowIdle
    /\ EvIdle
    /\ GridIdle
    /\ LiveIdle
    /\ ContactIdle
    /\ VariantIdle

SpecWindow == WinInit /\ [][SelNext]_vars

(***************************************************************************)
(* selectCampaign on campaigns that carry target_groups and on sites that  *)
(* carry groups, as mapCampaign and mapSite build them.                    *)
(***************************************************************************)
\* target_groups of a campaign (<< >> is undefined) and groups of a site.
\* The group "X" is also the competitor group of the campaigns of KindGroupX.
TargetGroups == { << >>, <<"X">> }
SiteGroups == { << >>, <<"X">> }

GroupCampaigns ==
    { [target_groups |-> tg] @@ c :
         tg \in TargetGroups,
         c \in { MkCampaign(id, w, KindOpen) : id \in CampaignIds, w \in {1, 3} }
               \cup { MkCampaign(id, 3, KindGroupX) : id \in CampaignIds }
               \cup { MkCampaign("a", 3, KindExpired) } }

GroupSites == { [groups |-> g] @@ site : g \in SiteGroups, site \in Sites }

GroupsInit ==
    /\ args \in [campaigns : UNION { [1..n -> GroupCampaigns] : n \in 0..MaxCampaigns },
                 site : GroupSites, preferCampaignId : {"", "b"}, now : {Today}]
    /\ rnd \in 0..(RandDen - 1)
    /\ selected = << >>
    /\ selPc = "call"
    /\ clock = 0 /\ cache = << >> /\ env = [sheetId |-> TRUE, saJson |-> TRUE]
    /\ sheet = [campaigns |-> << >>, sites |-> << >>]
    /\ calls = [c \in 1..MaxCalls |-> IdleCall]
    /\ GetIdle
    /\ RowIdle
    /\ EvIdle
    /\ GridIdle
    /\ LiveIdle
    /\ ContactIdle
    /\ VariantIdle

SpecGroups == GroupsInit /\ [][SelNext]_vars

(***************************************************************************)
(* The inventory cache: getInventory.                                      *)
(*                                                                         *)
(* A call reads the clock once (now), returns at once on a fresh entry or  *)
(* on a missing SPONSOR_SHEET_ID, and otherwise awaits Promise.all of the  *)
(* two tab reads; other calls, the clock, the environment and the sheet    *)
(* move while it waits.  A call that has returned or thrown hands its      *)
(* outcome to its caller, which continues synchronously (Continue) before  *)
(* anything else runs.                                                     *)
(***************************************************************************)
\* The instants at which something happens: 0 s, 30 s, 60 s, 300 s, 330 s,
\* 360 s, ...  The ages they give an entry lie on both sides of, and on,
\* the ends of the two windows: 30 s, 60 s, 240 s, 270 s, 300 s, 330 s.
TimeAt(i) == (i \div 3) * STALE_MS + (i % 3) * (TTL_MS \div 2)
Instants == { TimeAt(i) : i \in 0..MaxTicks }

Callers == 1..MaxCalls

\* No caller is between the end of its call and its continuation, and no
\* response is being handed over.
Quiet == (\A c \in Callers : calls[c].pc \in {"idle", "await"}) /\ req.pc # "done"

\* Mutant: the fresh window is taken in seconds, not milliseconds.
MutIsFreshInSeconds(c, now) == c # << >> /\ now - c[1].fetchedAt < TTL_MS \div 1000

\* Mutant: an entry of exactly TTL_MS is still fresh.
MutIsFreshInclusive(c, now) == c # << >> /\ now - c[1].fetchedAt <= TTL_MS

\* cache && now - cache.fetchedAt < TTL_MS
IsFresh(c, now) == c # << >> /\ now - c[1].fetchedAt < TTL_MS

\* Mutant: the stale fallback uses the fresh window.
MutIsUsableStaleTtl(c, now) == c # << >> /\ now - c[1].fetchedAt < TTL_MS

\* Mutant: an entry of exactly STALE_MS is still served after a failed read.
MutIsUsableStaleInclusive(c, now) == c # << >> /\ now - c[1].fetchedAt <= STALE_MS

\* cache && now - cache.fetchedAt < STALE_MS
IsUsableStale(c, now) == c # << >> /\ now - c[1].fetchedAt < STALE_MS

\* getEnv(name) throws when the variable is absent or empty.
GetEnvThrows(e, name) == ~e[name]

\* Mutant: the entry is stamped with the time the fetch completed.
MutNewEntryStampedAtEnd(inv, now) == [value |-> inv, fetchedAt |-> clock]

\* cache = { value: { campaigns, sites }, fetchedAt: now }
NewEntry(inv, now) == [value |-> inv, fetchedAt |-> now]

\* Mutant: a call that finds another call awaiting the sheet issues no read
\* of its own.
MutStartCallSingleFlight(c) ==
    /\ Quiet
    /\ calls[c].pc = "idle"
    /\ calls' = [calls EXCEPT ![c] =
          IF IsFresh(cache, clock)
          THEN [pc |-> "returned", now |-> clock, ext |-> FALSE, settled |-> "none",
                result |-> <<cache[1].value>>, seen |-> cache]
          ELSE IF GetEnvThrows(env, "sheetId")
          THEN [pc |-> "threw", now |-> clock, ext |-> FALSE, settled |-> "none",
                result |-> << >>, seen |-> cache]
          ELSE [pc |-> "await", now |-> clock,
                ext |-> ~GetEnvThrows(env, "saJson")
                        /\ ~\E d \in 1..MaxCalls : d # c /\ calls[d].pc = "await" /\ calls[d].ext,
                settled |-> "none", result |-> << >>, seen |-> << >>]]
    /\ UNCHANGED <<clock, cache, env, sheet>>

\* A call record: pc is the position ("idle", "await": at line 247,
\* "returned", "threw"), now the value read at line 241, ext whether the two
\* external reads were issued, settled how Promise.all ended ("none": it was
\* not awaited), result the value returned, seen the cache as the call read
\* it when it finished.
\*
\* The call of caller c, lines 241-250 up to the await.
\*  - a fresh entry is returned at once, no external read is issued;
\*  - else getEnv("SPONSOR_SHEET_ID") runs outside the try: when it throws,
\*    the call throws, whatever the cache holds;
\*  - else both fetchSheetTab calls are made and the call awaits them.  With
\*    the credential absent getEnv throws inside fetchSheetTab before any
\*    external read, and Promise.all is bound to reject (ext = FALSE).
StartCall(c) ==
    /\ Quiet
    /\ calls[c].pc = "idle"
    /\ calls' = [calls EXCEPT ![c] =
          IF IsFresh(cache, clock)
          THEN [pc |-> "returned", now |-> clock, ext |-> FALSE, settled |-> "none",
                result |-> <<cache[1].value>>, seen |-> cache]
          ELSE IF GetEnvThrows(env, "sheetId")
          THEN [pc |-> "threw", now |-> clock, ext |-> FALSE, settled |-> "none",
                result |-> << >>, seen |-> cache]
          ELSE [pc |-> "await", now |-> clock, ext |-> ~GetEnvThrows(env, "saJson"),
                settled |-> "none", result |-> << >>, seen |-> << >>]]
    /\ UNCHANGED <<clock, cache, env, sheet>>

\* Both tab reads succeed: lines 252-261.  The inventory is what the sheet
\* holds when the reads complete.
\* Mutant: an entry stamped later than the call began is kept.
MutFetchResolveWithKeepNewer(c, inv) ==
    /\ Quiet
    /\ calls[c].pc = "await"
    /\ calls[c].ext
    /\ cache' = IF cache # << >> /\ cache[1].fetchedAt > calls[c].now
                THEN cache ELSE <<NewEntry(inv, calls[c].now)>>
    /\ calls' = [calls EXCEPT ![c].pc = "returned", ![c].settled = "resolved",
                              ![c].result = <<inv>>, ![c].seen = cache]
    /\ UNCHANGED <<clock, env, sheet>>

FetchResolveWith(c, inv) ==
    /\ Quiet
    /\ calls[c].pc = "await"
    /\ calls[c].ext
    /\ cache' = <<NewEntry(inv, calls[c].now)>>
    /\ calls' = [calls EXCEPT ![c].pc = "returned", ![c].settled = "resolved",
                              ![c].result = <<cache'[1].value>>, ![c].seen = cache]
    /\ UNCHANGED <<clock, env, sheet>>

FetchResolve(c) == FetchResolveWith(c, sheet)

\* Mutant: a failed read empties the cache.
MutFetchRejectClearsCache(c) ==
    /\ Quiet
    /\ calls[c].pc = "await"
    /\ IF IsUsableStale(cache, calls[c].now)
       THEN calls' = [calls EXCEPT ![c].pc = "returned", ![c].settled = "rejected",
                                   ![c].result = <<cache[1].value>>, ![c].seen = cache]
       ELSE calls' = [calls EXCEPT ![c].pc = "threw", ![c].settled = "rejected", ![c].seen = cache]
    /\ cache' = << >>
    /\ UNCHANGED <<clock, env, sheet>>

\* A tab read fails (network, auth, quota, or the credential is absent or
\* unparsable): the catch block, lines 262-265.
FetchReject(c) ==
    /\ Quiet
    /\ calls[c].pc = "await"
    /\ IF IsUsableStale(cache, calls[c].now)
       THEN calls' = [calls EXCEPT ![c].pc = "returned", ![c].settled = "rejected",
                                   ![c].result = <<cache[1].value>>, ![c].seen = cache]
       ELSE calls' = [calls EXCEPT ![c].pc = "threw", ![c].settled = "rejected", ![c].seen = cache]
    /\ UNCHANGED <<clock, cache, env, sheet>>

\* The caller of a finished call continues with its outcome.
Continue(c) ==
    /\ calls[c].pc \in {"returned", "threw"}
    /\ calls' = [calls EXCEPT ![c] = IdleCall]
    /\ UNCHANGED <<clock, cache, env, sheet>>

\* Time passes.
Tick ==
    /\ Quiet
    /\ \E t \in Instants :
          /\ t > clock
          /\ \A u \in Instants : u > clock => t <= u
          /\ clock' = t
    /\ UNCHANGED <<cache, env, sheet, calls>>

\* process.env is read at every call, and may have changed in between.
SetEnv ==
    /\ Quiet
    /\ \E e \in [sheetId : BOOLEAN, saJson : BOOLEAN] : e # env /\ env' = e
    /\ UNCHANGED <<clock, cache, sheet, calls>>

\* The site and campaign rows the spreadsheet can hold.
SiteS1 == [site_id |-> "s1", status |-> "active", blocked_competitor_groups |-> <<"X">>]
SiteS2 == [site_id |-> "s2", status |-> "paused", blocked_competitor_groups |-> << >>]
SiteS3 == [site_id |-> "s3", status |-> "active", blocked_competitor_groups |-> << >>]
InvA == [campaigns |-> <<MkCampaign("a", 1, KindOpen), MkCampaign("b", 3, KindGroupX)>>,
         sites |-> <<SiteS1, SiteS2, SiteS3>>]
InvB == [campaigns |-> <<MkCampaign("a", 3, KindPaused), MkCampaign("b", 0, KindExpired)>>,
         sites |-> <<SiteS1, SiteS3>>]
Inventories == {InvA, InvB}

\* Somebody edits the spreadsheet.
EditSheet ==
    /\ Quiet
    /\ \E i \in Inventories : i # sheet /\ sheet' = i
    /\ UNCHANGED <<clock, cache, env, calls>>

Init ==
    /\ clock = 0
    /\ cache = << >>
    /\ env \in [sheetId : BOOLEAN, saJson : BOOLEAN]
    /\ sheet \in Inventories
    /\ calls = [c \in Callers |-> IdleCall]
    /\ SelIdle
    /\ GetIdle
    /\ RowIdle
    /\ EvIdle
    /\ GridIdle
    /\ LiveIdle
    /\ ContactIdle
    /\ VariantIdle

Next ==
    \/ \E c \in Callers : StartCall(c) /\ UNCHANGED <<selVars, getVars, rowVars, evVars, gridVars, liveVars, contactVars, rawEnv>>
    \/ \E c \in Callers : FetchResolve(c) /\ UNCHANGED <<selVars, getVars, rowVars, evVars, gridVars, liveVars, contactVars, rawEnv>>
    \/ \E c \in Callers : FetchReject(c) /\ UNCHANGED <<selVars, getVars, rowVars, evVars, gridVars, liveVars, contactVars, rawEnv>>
    \/ \E c \in Callers : Continue(c) /\ UNCHANGED <<selVars, getVars, rowVars, evVars, gridVars, liveVars, contactVars, rawEnv>>
    \/ Tick /\ UNCHANGED <<selVars, getVars, rowVars, evVars, gridVars, liveVars, contactVars, rawEnv>>
    \/ SetEnv /\ UNCHANGED <<selVars, getVars, rowVars, evVars, gridVars, liveVars, contactVars, rawEnv>>
    \/ EditSheet /\ UNCHANGED <<selVars, getVars, rowVars, evVars, gridVars, liveVars, contactVars, rawEnv>>

Spec == Init /\ [][Next]_vars

(***************************************************************************)
(* Getting edits of the spreadsheet live.  The two tab reads of a call     *)
(* happen somewhere between its start and its end: the inventory it builds *)
(* is what the sheet held at either end.  Both variables are present, so   *)
(* that a read fails only for reasons outside the process.                 *)
(***************************************************************************)
LiveStart(c) ==
    /\ StartCall(c)
    /\ snap' = [snap EXCEPT ![c] = <<sheet>>]
    /\ UNCHANGED changedAt

LiveResolve(c) ==
    /\ calls[c].pc = "await"
    /\ \E inv \in {snap[c][1], sheet} : FetchResolveWith(c, inv)
    /\ UNCHANGED liveVars

LiveContinue(c) ==
    /\ Continue(c)
    /\ snap' = [snap EXCEPT ![c] = << >>]
    /\ UNCHANGED changedAt

LiveEdit ==
    /\ EditSheet
    /\ changedAt' = clock
    /\ UNCHANGED snap

LiveInit ==
    /\ clock = 0
    /\ cache = << >>
    /\ env = [sheetId |-> TRUE, saJson |-> TRUE]
    /\ sheet \in Inventories
    /\ calls = [c \in Callers |-> IdleCall]
    /\ SelIdle
    /\ GetIdle
    /\ RowIdle
    /\ EvIdle
    /\ GridIdle
    /\ LiveIdle
    /\ ContactIdle
    /\ VariantIdle

LiveNext ==
    \/ \E c \in Callers : LiveStart(c) /\ UNCHANGED <<selVars, getVars, rowVars, evVars, gridVars, contactVars, rawEnv>>
    \/ \E c \in Callers : LiveResolve(c) /\ UNCHANGED <<selVars, getVars, rowVars, evVars, gridVars, contactVars, rawEnv>>
    \/ \E c \in Callers : FetchReject(c) /\ UNCHANGED <<selVars, getVars, rowVars, evVars, gridVars, liveVars, contactVars, rawEnv>>
    \/ \E c \in Callers : LiveContinue(c) /\ UNCHANGED <<selVars, getVars, rowVars, evVars, gridVars, contactVars, rawEnv>>
    \/ Tick /\ UNCHANGED <<selVars, getVars, rowVars, evVars, gridVars, liveVars, contactVars, rawEnv>>
    \/ LiveEdit /\ UNCHANGED <<selVars, getVars, rowVars, evVars, gridVars, contactVars, rawEnv>>

SpecLive == LiveInit /\ [][LiveNext]_vars

(***************************************************************************)
(* GET /api/sponsor.  One request is handled at a time, by caller 1.       *)
(***************************************************************************)
\* The values of the siteId and preferCampaignId query parameters ("" also
\* stands for a parameter that is not given).
RawSiteIds == {"", " ", "s1", " s1 ", "s2", "s3", "nope"}
RawPreferIds == {"", "b", " b ", "zz"}

\* String.prototype.trim on the parameter values above.
Trim(x) ==
    CASE x = " " -> ""
      [] x = " s1 " -> "s1"
      [] x = " b " -> "b"
      [] OTHER -> x

\* inv.sites.find(s => s.site_id === siteId): first match or << >>.
RECURSIVE FindSite(_, _)
FindSite(sites, siteId) ==
    IF sites = << >> THEN << >>
    ELSE IF Head(sites).site_id = siteId THEN <<Head(sites)>>
    ELSE FindSite(Tail(sites), siteId)

\* Mutant: an unknown site is answered 404.
MutRespondNotFound(inv, siteId, prefer, k) ==
    LET site == FindSite(inv.sites, siteId) IN
    IF site = << >>
    THEN [status |-> 404, error |-> "", campaignId |-> ""]
    ELSE IF site[1].status # "active"
    THEN [status |-> 204, error |-> "", campaignId |-> ""]
    ELSE LET campaign == selectCampaign([campaigns |-> inv.campaigns, site |-> site[1],
                                         preferCampaignId |-> prefer, now |-> Today], k)
         IN  IF campaign = << >>
             THEN [status |-> 204, error |-> "", campaignId |-> ""]
             ELSE [status |-> 200, error |-> "", campaignId |-> campaign[1].campaign_id]

\* Mutant: the status of the site is not looked at.
MutRespondAnySite(inv, siteId, prefer, k) ==
    LET site == FindSite(inv.sites, siteId) IN
    IF site = << >>
    THEN [status |-> 204, error |-> "", campaignId |-> ""]
    ELSE LET campaign == selectCampaign([campaigns |-> inv.campaigns, site |-> site[1],
                                         preferCampaignId |-> prefer, now |-> Today], k)
         IN  IF campaign = << >>
             THEN [status |-> 204, error |-> "", campaignId |-> ""]
             ELSE [status |-> 200, error |-> "", campaignId |-> campaign[1].campaign_id]

\* The response computed from the inventory, lines 26-69; k is the draw of
\* Math.random() in selectCampaign.
Respond(inv, siteId, prefer, k) ==
    LET site == FindSite(inv.sites, siteId) IN
    IF site = << >> \/ site[1].status # "active"
    THEN [status |-> 204, error |-> "", campaignId |-> ""]
    ELSE LET campaign == selectCampaign([campaigns |-> inv.campaigns, site |-> site[1],
                                         preferCampaignId |-> prefer, now |-> Today], k)
         IN  IF campaign = << >>
             THEN [status |-> 204, error |-> "", campaignId |-> ""]
             ELSE [status |-> 200, error |-> "", campaignId |-> campaign[1].campaign_id]

\* The catch block, lines 70-80.
RespondError == [status |-> 500, error |-> "sponsor_fetch_failed", campaignId |-> ""]

\* Mutant: the inventory is asked for before siteId is looked at.
MutGetRejectAfterInventory ==
    /\ req.pc = "idle"
    /\ \E raw \in RawSiteIds, rawPrefer \in RawPreferIds :
          /\ Trim(raw) = ""
          /\ req' = [pc |-> "done", siteId |-> Trim(raw), preferCampaignId |-> Trim(rawPrefer)]
          /\ resp' = [status |-> 400, error |-> "", campaignId |-> ""]
    /\ StartCall(1)

\* Lines 16-19: a missing or blank siteId is answered 400 at once.
GetReject ==
    /\ Quiet
    /\ req.pc = "idle"
    /\ \E raw \in RawSiteIds, rawPrefer \in RawPreferIds :
          /\ Trim(raw) = ""
          /\ req' = [pc |-> "done", siteId |-> Trim(raw), preferCampaignId |-> Trim(rawPrefer)]
          /\ resp' = [status |-> 400, error |-> "", campaignId |-> ""]
    /\ UNCHANGED cacheVars

\* Lines 16-25: the handler calls getInventory.
GetBegin ==
    /\ req.pc = "idle"
    /\ \E raw \in RawSiteIds, rawPrefer \in RawPreferIds :
          /\ Trim(raw) # ""
          /\ req' = [pc |-> "wait", siteId |-> Trim(raw), preferCampaignId |-> Trim(rawPrefer)]
    /\ StartCall(1)
    /\ UNCHANGED resp

\* Mutant: the handler without its catch block; a rejected getInventory
\* leaves the request without response.
MutGetFinishNoCatch ==
    /\ req.pc = "wait"
    /\ calls[1].pc = "returned"
    /\ \E k \in 0..(RandDen - 1) :
          resp' = Respond(calls[1].result[1], req.siteId, req.preferCampaignId, k)
    /\ req' = [req EXCEPT !.pc = "done"]
    /\ UNCHANGED cacheVars

\* Lines 26-80: getInventory has returned or thrown, the response is built.
GetFinish ==
    /\ req.pc = "wait"
    /\ calls[1].pc \in {"returned", "threw"}
    /\ \E k \in 0..(RandDen - 1) :
          resp' = IF calls[1].pc = "threw" THEN RespondError
                  ELSE Respond(calls[1].result[1], req.siteId, req.preferCampaignId, k)
    /\ req' = [req EXCEPT !.pc = "done"]
    /\ UNCHANGED cacheVars

\* The response is sent.
GetClose ==
    /\ req.pc = "done"
    /\ req' = IdleReq
    /\ resp' = NoResp
    /\ calls' = [calls EXCEPT ![1] = IdleCall]
    /\ UNCHANGED <<clock, cache, env, sheet>>

GetNext ==
    \/ GetReject /\ UNCHANGED <<selVars, rowVars, evVars, gridVars, liveVars, contactVars, rawEnv>>
    \/ GetBegin /\ UNCHANGED <<selVars, rowVars, evVars, gridVars, liveVars, contactVars, rawEnv>>
    \/ GetFinish /\ UNCHANGED <<selVars, rowVars, evVars, gridVars, liveVars, contactVars, rawEnv>>
    \/ GetClose /\ UNCHANGED <<selVars, rowVars, evVars, gridVars, liveVars, contactVars, rawEnv>>
    \/ FetchResolve(1) /\ UNCHANGED <<selVars, getVars, rowVars, evVars, gridVars, liveVars, contactVars, rawEnv>>
    \/ FetchReject(1) /\ UNCHANGED <<selVars, getVars, rowVars, evVars, gridVars, liveVars, contactVars, rawEnv>>
    \/ Tick /\ UNCHANGED <<selVars, getVars, rowVars, evVars, gridVars, liveVars, contactVars, rawEnv>>
    \/ SetEnv /\ UNCHANGED <<selVars, getVars, rowVars, evVars, gridVars, liveVars, contactVars, rawEnv>>
    \/ EditSheet /\ UNCHANGED <<selVars, getVars, rowVars, evVars, gridVars, liveVars, contactVars, rawEnv>>

SpecGet == Init /\ [][GetNext]_vars

\* The scheduling of a request: a pending read of the spreadsheet completes,
\* with a result or an error, and the event loop runs the continuation of a
\* settled await.
GetFairness ==
    /\ WF_vars((FetchResolve(1) \/ FetchReject(1))
                  /\ UNCHANGED <<selVars, getVars, rowVars, evVars, gridVars, liveVars, contactVars, rawEnv>>)
    /\ WF_vars(GetFinish /\ UNCHANGED <<selVars, rowVars, evVars, gridVars, liveVars, contactVars, rawEnv>>)

SpecGetFair == Init /\ [][GetNext]_vars /\ GetFairness

(***************************************************************************)
(* Building the inventory from the rows of the network_ads tab:            *)
(* sheetRowsToObjects, mapCampaign and their helpers.                      *)
(*                                                                         *)
(* A cell is a sequence of character codes; << >> is the empty string and  *)
(* also stands for a cell the row or the header does not have (the code    *)
(* reads every cell through "?? ''" or a truthiness test).  In a campaign  *)
(* an optional field that is undefined is << >>.                           *)
(***************************************************************************)
\* "https://"
Https == <<104, 116, 116, 112, 115, 58, 47, 47>>
\* "paused"
Paused == <<112, 97, 117, 115, 101, 100>>
\* "custom"
Custom == <<99, 117, 115, 116, 111, 109>>

\* The white space String.prototype.trim removes, of the characters used
\* here: tab, line feed, carriage return, space.
IsSpace(ch) == ch \in {9, 10, 13, 32}

RECURSIVE TrimStart(_)
TrimStart(s) ==
    IF s = << >> THEN << >>
    ELSE IF IsSpace(Head(s)) THEN TrimStart(Tail(s))
    ELSE s

RECURSIVE TrimEnd(_)
TrimEnd(s) ==
    IF s = << >> THEN << >>
    ELSE IF IsSpace(s[Len(s)]) THEN TrimEnd(SubSeq(s, 1, Len(s) - 1))
    ELSE s

\* String.prototype.trim
TrimStr(s) == TrimEnd(TrimStart(s))

\* String.prototype.toLowerCase on ASCII letters.
ToLowerCase(s) == [i \in 1..Len(s) |-> IF s[i] >= 65 /\ s[i] <= 90 THEN s[i] + 32 ELSE s[i]]

\* String.prototype.startsWith
StartsWith(s, prefix) == Len(s) >= Len(prefix) /\ SubSeq(s, 1, Len(prefix)) = prefix

\* v.split(","): the pieces between the commas (code 44).
RECURSIVE SplitComma(_)
SplitComma(s) ==
    IF \A i \in 1..Len(s) : s[i] # 44 THEN <<s>>
    ELSE LET i == CHOOSE k \in 1..Len(s) : s[k] = 44 /\ \A j \in 1..(k - 1) : s[j] # 44
         IN  <<SubSeq(s, 1, i - 1)>> \o SplitComma(SubSeq(s, i + 1, Len(s)))

RECURSIVE TrimAndKeepNonEmpty(_)
TrimAndKeepNonEmpty(parts) ==
    IF parts = << >> THEN << >>
    ELSE (IF TrimStr(Head(parts)) # << >> THEN <<TrimStr(Head(parts))>> ELSE << >>)
         \o TrimAndKeepNonEmpty(Tail(parts))

parseCsvList(v) == IF v = << >> THEN << >> ELSE TrimAndKeepNonEmpty(SplitComma(v))

\* Mutant: the status is compared as written, without toLowerCase.
MutAsStatusCaseSensitive(v) == IF TrimStr(v) = Paused THEN "paused" ELSE "active"

asStatus(v) == IF ToLowerCase(TrimStr(v)) = Paused THEN "paused" ELSE "active"

\* Number(s) on a trimmed cell, for the cells used here: the empty string
\* is 0, an optionally signed decimal numeral with an optional fraction is
\* its value num / den, anything else is NaN.
IsDigits(s) == s # << >> /\ \A i \in 1..Len(s) : s[i] >= 48 /\ s[i] <= 57
RECURSIVE DigitsValue(_)
DigitsValue(s) == IF s = << >> THEN 0 ELSE DigitsValue(SubSeq(s, 1, Len(s) - 1)) * 10 + (s[Len(s)] - 48)
RECURSIVE Pow10(_)
Pow10(n) == IF n = 0 THEN 1 ELSE 10 * Pow10(n - 1)
NaN == [nan |-> TRUE, num |-> 0, den |-> 1]
UnsignedNumber(s) ==
    IF IsDigits(s) THEN [nan |-> FALSE, num |-> DigitsValue(s), den |-> 1]
    ELSE IF \E i \in 1..Len(s) : s[i] = 46 /\ IsDigits(SubSeq(s, 1, i - 1)) /\ IsDigits(SubSeq(s, i + 1, Len(s)))
    THEN LET i == CHOOSE k \in 1..Len(s) : s[k] = 46
             frac == SubSeq(s, i + 1, Len(s))
         IN  [nan |-> FALSE,
              num |-> DigitsValue(SubSeq(s, 1, i - 1)) * Pow10(Len(frac)) + DigitsValue(frac),
              den |-> Pow10(Len(frac))]
    ELSE NaN
NumberOf(s) ==
    IF s = << >> THEN [nan |-> FALSE, num |-> 0, den |-> 1]
    ELSE IF Head(s) = 45
    THEN LET u == UnsignedNumber(Tail(s)) IN [u EXCEPT !.num = 0 - u.num]
    ELSE UnsignedNumber(s)

\* Number.isFinite(n) && n > 0 ? Math.round(n) : 1, with Math.round(n) the
\* floor of n + 1/2.
coerceWeight(v) ==
    LET n == NumberOf(TrimStr(v)) IN
    IF ~n.nan /\ n.num > 0 THEN (2 * n.num + n.den) \div (2 * n.den) ELSE 1

clampStr(v, max) ==
    LET t == TrimStr(v) IN IF Len(t) > max THEN SubSeq(t, 1, max) ELSE t

\* Mutant: any http scheme is accepted.
MutIsHttpsUrlAnyHttp(url) == StartsWith(TrimStr(url), <<104, 116, 116, 112>>)

isHttpsUrl(url) == StartsWith(TrimStr(url), Https)

\* sheetRowsToObjects, line 71: every cell is trimmed.
RowObject(cells) == [h \in DOMAIN cells |-> TrimStr(cells[h])]

\* mapCampaign: << >> is null.
mapCampaign(r) ==
    LET campaign_id == r.campaign_id
        brand_name == clampStr(r.brand_name, 35)
        headline == clampStr(r.headline, 45)
        subline == clampStr(r.subline, 75)
        site_url == TrimStr(r.site_url)
        logo_url == TrimStr(r.logo_url)
        cta_label == clampStr(r.cta_label, 18)
        cta_url == TrimStr(r.cta_url)
        cta_type == TrimStr(r.cta_type)
        wa_url == TrimStr(r.wa_url)
        ig_url == TrimStr(r.ig_url)
    IN  IF campaign_id = << >> THEN << >>
        ELSE IF brand_name = << >> \/ headline = << >> \/ subline = << >> THEN << >>
        ELSE IF ~isHttpsUrl(site_url) \/ ~isHttpsUrl(logo_url) THEN << >>
        ELSE IF cta_label # << >> /\ (cta_url = << >> \/ ~isHttpsUrl(cta_url)) THEN << >>
        ELSE IF wa_url # << >> /\ ~isHttpsUrl(wa_url) THEN << >>
        ELSE IF ig_url # << >> /\ ~isHttpsUrl(ig_url) THEN << >>
        ELSE <<[campaign_id |-> campaign_id,
                status |-> asStatus(r.status),
                weight |-> coerceWeight(r.weight),
                brand_name |-> brand_name,
                headline |-> headline,
                subline |-> subline,
                site_url |-> site_url,
                logo_url |-> logo_url,
                cta_label |-> cta_label,
                cta_url |-> cta_url,
                cta_type |-> cta_type,
                wa_url |-> wa_url,
                ig_url |-> ig_url,
                competitor_group |-> TrimStr(r.competitor_group),
                target_groups |-> parseCsvList(r.target_groups),
                start_date |-> TrimStr(r.start_date),
                end_date |-> TrimStr(r.end_date)]>>

\* Mutant: cta is an object whenever the campaign has a cta_url.
MutCampaignBodyCtaByUrl(c) ==
    [campaignId |-> c.campaign_id,
     brandName |-> c.brand_name,
     headline |-> c.headline,
     subline |-> c.subline,
     siteUrl |-> c.site_url,
     logoUrl |-> c.logo_url,
     cta |-> IF c.cta_url # << >>
             THEN <<[label |-> c.cta_label, url |-> c.cta_url,
                     type |-> IF c.cta_type = << >> THEN Custom ELSE c.cta_type]>>
             ELSE << >>,
     social |-> [whatsappUrl |-> IF c.wa_url = << >> THEN << >> ELSE <<c.wa_url>>,
                 instagramUrl |-> IF c.ig_url = << >> THEN << >> ELSE <<c.ig_url>>]]

\* The campaign object of the 200 response of GET /api/sponsor, sponsor.ts
\* lines 45-59.  A nullable field is a sequence of length <= 1.
CampaignBody(c) ==
    [campaignId |-> c.campaign_id,
     brandName |-> c.brand_name,
     headline |-> c.headline,
     subline |-> c.subline,
     siteUrl |-> c.site_url,
     logoUrl |-> c.logo_url,
     cta |-> IF c.cta_label # << >>
             THEN <<[label |-> c.cta_label, url |-> c.cta_url,
                     type |-> IF c.cta_type = << >> THEN Custom ELSE c.cta_type]>>
             ELSE << >>,
     social |-> [whatsappUrl |-> IF c.wa_url = << >> THEN << >> ELSE <<c.wa_url>>,
                 instagramUrl |-> IF c.ig_url = << >> THEN << >> ELSE <<c.ig_url>>]]

\* Cell values.
UrlHttps == Https \o <<120>>
UrlHttp == <<104, 116, 116, 112, 58, 47, 47, 120>>
UrlPadded == <<32>> \o Https \o <<120, 32>>
UrlNoScheme == <<119, 97, 46, 109, 101>>
Blank == <<32, 32>>
LabelBook == <<66, 111, 111, 107>>
\* A label of 19 characters, one more than clampStr keeps.
LabelLong == [i \in 1..19 |-> 66]

\* Weight cells: empty, "2.5", "0.4", "-1", "abc".
RawWeights == {<< >>, <<50, 46, 53>>, <<48, 46, 52>>, <<45, 49>>, <<97, 98, 99>>}

Rows ==
    [campaign_id : {<< >>, Blank, <<97>>},
     status : {<<32, 80, 65, 85, 83, 69, 68>>},
     weight : RawWeights,
     brand_name : {<< >>, <<66>>},
     headline : {<< >>, <<72>>},
     subline : {Blank, <<83>>},
     site_url : {UrlHttps, UrlHttp, UrlPadded},
     logo_url : {UrlHttps, UrlNoScheme},
     cta_label : {<< >>, LabelBook, LabelLong},
     cta_url : {<< >>, UrlHttps, UrlHttp},
     cta_type : {<< >>, <<98>>},
     wa_url : {<< >>, UrlHttps, UrlNoScheme},
     ig_url : {<< >>, UrlHttps, UrlHttp},
     competitor_group : {<<88>>},
     target_groups : {<<103, 44, 32, 104, 44>>},
     start_date : {<< >>},
     end_date : {ToISODate(Tomorrow)}]

RowInit ==
    /\ row \in Rows
    /\ mapped = << >> /\ body = << >> /\ rowPc = "row"
    /\ SelIdle
    /\ clock = 0 /\ cache = << >> /\ env = [sheetId |-> TRUE, saJson |-> TRUE]
    /\ sheet = [campaigns |-> << >>, sites |-> << >>]
    /\ calls = [c \in 1..MaxCalls |-> IdleCall]
    /\ GetIdle
    /\ EvIdle
    /\ GridIdle
    /\ LiveIdle
    /\ ContactIdle
    /\ VariantIdle

\* getInventory, lines 252-254, for one row of the tab.
MapRow ==
    /\ rowPc = "row"
    /\ mapped' = mapCampaign(RowObject(row))
    /\ rowPc' = "mapped"
    /\ UNCHANGED <<row, body>>

\* GET /api/sponsor answers 200 with a campaign of the inventory.
SendBody ==
    /\ rowPc = "mapped"
    /\ mapped # << >>
    /\ body' = <<CampaignBody(mapped[1])>>
    /\ rowPc' = "sent"
    /\ UNCHANGED <<row, mapped>>

RowNext ==
    \/ MapRow /\ UNCHANGED <<selVars, cacheVars, getVars, evVars, gridVars, liveVars, contactVars, rawEnv>>
    \/ SendBody /\ UNCHANGED <<selVars, cacheVars, getVars, evVars, gridVars, liveVars, contactVars, rawEnv>>

SpecRow == RowInit /\ [][RowNext]_vars

(***************************************************************************)
(* The two tabs as the Sheets API returns them, and the inventory built    *)
(* from them: getInventory, lines 252-258.                                 *)
(*                                                                         *)
(* A tab is a sequence of rows, a row a sequence of cells, the first row   *)
(* the header.  An object keyed by the header is a function on the column  *)
(* names.                                                                  *)
(***************************************************************************)
\* The column names.
Name ==
    [campaign_id |-> <<99, 97, 109, 112, 97, 105, 103, 110, 95, 105, 100>>,
     status |-> <<115, 116, 97, 116, 117, 115>>,
     weight |-> <<119, 101, 105, 103, 104, 116>>,
     brand_name |-> <<98, 114, 97, 110, 100, 95, 110, 97, 109, 101>>,
     headline |-> <<104, 101, 97, 100, 108, 105, 110, 101>>,
     subline |-> <<115, 117, 98, 108, 105, 110, 101>>,
     site_url |-> <<115, 105, 116, 101, 95, 117, 114, 108>>,
     logo_url |-> <<108, 111, 103, 111, 95, 117, 114, 108>>,
     cta_label |-> <<99, 116, 97, 95, 108, 97, 98, 101, 108>>,
     cta_url |-> <<99, 116, 97, 95, 117, 114, 108>>,
     cta_type |-> <<99, 116, 97, 95, 116, 121, 112, 101>>,
     wa_url |-> <<119, 97, 95, 117, 114, 108>>,
     ig_url |-> <<105, 103, 95, 117, 114, 108>>,
     competitor_group |-> <<99, 111, 109, 112, 101, 116, 105, 116, 111, 114, 95, 103, 114, 111, 117, 112>>,
     target_groups |-> <<116, 97, 114, 103, 101, 116, 95, 103, 114, 111, 117, 112, 115>>,
     start_date |-> <<115, 116, 97, 114, 116, 95, 100, 97, 116, 101>>,
     end_date |-> <<101, 110, 100, 95, 100, 97, 116, 101>>,
     site_id |-> <<115, 105, 116, 101, 95, 105, 100>>,
     blocked_competitor_groups |-> <<98, 108, 111, 99, 107, 101, 100, 95, 99, 111, 109, 112, 101, 116, 105, 116, 111, 114, 95, 103, 114, 111, 117, 112, 115>>,
     groups |-> <<103, 114, 111, 117, 112, 115>>,
     notes |-> <<110, 111, 116, 101, 115>>]
AdsColumns ==
    <<Name.campaign_id, Name.status, Name.weight, Name.brand_name,
      Name.headline, Name.subline, Name.site_url, Name.logo_url,
      Name.cta_label, Name.cta_url, Name.cta_type, Name.wa_url,
      Name.ig_url, Name.competitor_group, Name.target_groups, Name.start_date,
      Name.end_date>>
SitesColumns == <<Name.site_id, Name.status, Name.blocked_competitor_groups, Name.groups>>

\* r[name] ?? "": a column the header lacks reads as the empty string
\* wherever mapCampaign and mapSite read it.
Field(obj, name) == IF name \in DOMAIN obj THEN obj[name] ELSE << >>

\* r.some(cell => String(cell ?? "").trim())
HasText(r) == \E i \in 1..Len(r) : TrimStr(r[i]) # << >>

\* headers.forEach assigns obj[h] column by column: of two columns of the
\* same name the last one wins.
LastIndexOf(headers, h) ==
    CHOOSE i \in 1..Len(headers) :
        headers[i] = h /\ \A j \in (i + 1)..Len(headers) : headers[j] # h

\* sheetRowsToObjects; values is << >> for undefined (adsValues ?? []).
sheetRowsToObjects(values) ==
    IF Len(values) < 2 THEN << >>
    ELSE LET headers == [i \in 1..Len(values[1]) |-> TrimStr(values[1][i])]
             rows == SelectSeq(Tail(values), HasText)
             obj(r) == [h \in {headers[i] : i \in 1..Len(headers)} |->
                          LET idx == LastIndexOf(headers, h)
                          IN  IF idx <= Len(r) THEN TrimStr(r[idx]) ELSE << >>]
         IN  [k \in 1..Len(rows) |-> obj(rows[k])]

\* The object as mapCampaign reads it, one r["..."] per field.
AdsRowOf(obj) ==
    [campaign_id |-> Field(obj, Name.campaign_id),
     status |-> Field(obj, Name.status),
     weight |-> Field(obj, Name.weight),
     brand_name |-> Field(obj, Name.brand_name),
     headline |-> Field(obj, Name.headline),
     subline |-> Field(obj, Name.subline),
     site_url |-> Field(obj, Name.site_url),
     logo_url |-> Field(obj, Name.logo_url),
     cta_label |-> Field(obj, Name.cta_label),
     cta_url |-> Field(obj, Name.cta_url),
     cta_type |-> Field(obj, Name.cta_type),
     wa_url |-> Field(obj, Name.wa_url),
     ig_url |-> Field(obj, Name.ig_url),
     competitor_group |-> Field(obj, Name.competitor_group),
     target_groups |-> Field(obj, Name.target_groups),
     start_date |-> Field(obj, Name.start_date),
     end_date |-> Field(obj, Name.end_date)]

\* mapSite: << >> is null.
mapSite(r) ==
    LET site_id == Field(r, Name.site_id)
    IN  IF site_id = << >> THEN << >>
        ELSE <<[site_id |-> site_id,
                status |-> asStatus(Field(r, Name.status)),
                blocked_competitor_groups |-> parseCsvList(Field(r, Name.blocked_competitor_groups)),
                groups |-> parseCsvList(Field(r, Name.groups))]>>

\* Mutant: the rows after a row that maps to null are lost.
RECURSIVE MutFilterBooleanStopAtNull(_)
MutFilterBooleanStopAtNull(s) ==
    IF s = << >> \/ Head(s) = << >> THEN << >>
    ELSE Head(s) \o MutFilterBooleanStopAtNull(Tail(s))

\* .filter(Boolean) on a list of mapped rows: the nulls are left out.
RECURSIVE FilterBoolean(_)
FilterBoolean(s) == IF s = << >> THEN << >> ELSE Head(s) \o FilterBoolean(Tail(s))

\* Lines 252-258: { campaigns, sites }.
InventoryOf(ads, sites) ==
    LET adsObjects == sheetRowsToObjects(ads)
        sitesObjects == sheetRowsToObjects(sites)
    IN  [campaigns |-> FilterBoolean([k \in 1..Len(adsObjects) |-> mapCampaign(AdsRowOf(adsObjects[k]))]),
         sites |-> FilterBoolean([k \in 1..Len(sitesObjects) |-> mapSite(sitesObjects[k])])]

\* The inventory is built once both tabs are read.
BuildInventory ==
    /\ gridPc = "read"
    /\ built' = <<InventoryOf(adsValues, sitesValues)>>
    /\ gridPc' = "built"
    /\ UNCHANGED <<adsValues, sitesValues>>

\* At most MaxRows rows below the header.
MaxRows == 3

\* The header as documented, and one with padded names behind a column of
\* notes.
AdsColumnsLoose ==
    <<Name.notes>> \o [i \in 1..Len(AdsColumns) |-> <<32>> \o AdsColumns[i] \o <<32>>]
AdsHeaders == {AdsColumns, AdsColumnsLoose}

\* Two campaigns, a second row for the id of the first, a row with an http
\* site_url and a row of blanks.
AdA ==
    [campaign_id |-> <<97>>, status |-> << >>, weight |-> <<50>>,
     brand_name |-> <<66>>, headline |-> <<72>>, subline |-> <<83>>,
     site_url |-> UrlHttps, logo_url |-> UrlHttps,
     cta_label |-> << >>, cta_url |-> << >>, cta_type |-> << >>,
     wa_url |-> << >>, ig_url |-> << >>, competitor_group |-> << >>,
     target_groups |-> << >>, start_date |-> << >>, end_date |-> << >>]
AdB == [AdA EXCEPT !.campaign_id = <<32, 98>>, !.brand_name = <<67>>]
AdAgain == [AdA EXCEPT !.headline = <<73>>]
AdHttp == [AdA EXCEPT !.campaign_id = <<99>>, !.site_url = UrlHttp]
AdBlank == [f \in DOMAIN AdA |-> IF f = "subline" THEN Blank ELSE << >>]

\* The field a column of the sheet stands for ("": none).
ColumnField(name) ==
    CASE name = Name.campaign_id -> "campaign_id"
      [] name = Name.status -> "status"
      [] name = Name.weight -> "weight"
      [] name = Name.brand_name -> "brand_name"
      [] name = Name.headline -> "headline"
      [] name = Name.subline -> "subline"
      [] name = Name.site_url -> "site_url"
      [] name = Name.logo_url -> "logo_url"
      [] name = Name.cta_label -> "cta_label"
      [] name = Name.cta_url -> "cta_url"
      [] name = Name.cta_type -> "cta_type"
      [] name = Name.wa_url -> "wa_url"
      [] name = Name.ig_url -> "ig_url"
      [] name = Name.competitor_group -> "competitor_group"
      [] name = Name.target_groups -> "target_groups"
      [] name = Name.start_date -> "start_date"
      [] name = Name.end_date -> "end_date"
      [] name = Name.site_id -> "site_id"
      [] name = Name.blocked_competitor_groups -> "blocked_competitor_groups"
      [] name = Name.groups -> "groups"
      [] OTHER -> ""

\* The cells of a row under a header; a column that stands for no field of
\* the row is empty.
RowCells(header, rec) ==
    [i \in 1..Len(header) |->
        LET f == ColumnField(TrimStr(header[i]))
        IN  IF f \in DOMAIN rec THEN rec[f] ELSE << >>]

\* The rows a tab with this header can hold: the rows above, a row cut
\* after its third cell and a row without cells.
AdsRows(header) ==
    { RowCells(header, rec) : rec \in {AdA, AdB, AdAgain, AdHttp, AdBlank} }
    \cup { SubSeq(RowCells(header, AdB), 1, 3), << >> }

\* A tab: undefined, or a header and at most MaxRows rows.
GridsOf(header, rows) ==
    { <<header>> \o cells : cells \in UNION { [1..n -> rows] : n \in 0..MaxRows } }
AdsGrids == { << >> } \cup UNION { GridsOf(h, AdsRows(h)) : h \in AdsHeaders }
AdsGridPlain == <<AdsColumns, RowCells(AdsColumns, AdA), RowCells(AdsColumns, AdB)>>

\* Two sites, a second row for the id of the first, a row without site_id
\* and a row of blanks.
SiteRowS1 ==
    [site_id |-> <<115, 49>>, status |-> << >>,
     blocked_competitor_groups |-> <<88, 44, 32, 89>>, groups |-> << >>]
SiteRowS2 == [SiteRowS1 EXCEPT !.site_id = <<115, 50>>, !.status = <<80, 97, 117, 115, 101, 100>>]
SiteRowAgain == [SiteRowS1 EXCEPT !.status = <<112, 97, 117, 115, 101, 100>>, !.blocked_competitor_groups = << >>]
SiteRowNoId == [SiteRowS1 EXCEPT !.site_id = Blank]
SiteRowBlank == [f \in DOMAIN SiteRowS1 |-> << >>]
SitesRows ==
    { RowCells(SitesColumns, rec) :
        rec \in {SiteRowS1, SiteRowS2, SiteRowAgain, SiteRowNoId, SiteRowBlank} }
SitesGrids == { << >> } \cup GridsOf(SitesColumns, SitesRows)
SitesGridPlain == <<SitesColumns, RowCells(SitesColumns, SiteRowS1)>>

\* Either tab varies while the other is the plain one.
GridInit ==
    /\ \/ adsValues \in AdsGrids /\ sitesValues = SitesGridPlain
       \/ adsValues = AdsGridPlain /\ sitesValues \in SitesGrids
    /\ built = << >> /\ gridPc = "read"
    /\ SelIdle
    /\ clock = 0 /\ cache = << >> /\ env = [sheetId |-> TRUE, saJson |-> TRUE]
    /\ sheet = [campaigns |-> << >>, sites |-> << >>]
    /\ calls = [c \in 1..MaxCalls |-> IdleCall]
    /\ GetIdle
    /\ RowIdle
    /\ EvIdle
    /\ LiveIdle
    /\ ContactIdle
    /\ VariantIdle

GridNext == BuildInventory /\ UNCHANGED <<selVars, cacheVars, getVars, rowVars, evVars, liveVars, contactVars, rawEnv>>

SpecGrid == GridInit /\ [][GridNext]_vars

(***************************************************************************)
(* POST /api/event.                                                        *)
(*                                                                         *)
(* The handler has no await between reading and writing its two module     *)
(* level Maps (the only await is request.json(), before them), so one      *)
(* request is one step.  A Map is the sequence of its entries in insertion *)
(* order.  Strings are sequences of character codes, << >> the empty       *)
(* string and also a field or header that is absent or null.               *)
(***************************************************************************)
DEDUPE_MS == 30000
RATE_WINDOW_MS == 60000
RATE_MAX == 120

\* The clock runs through the first MaxEvTicks + 1 of the instants EvTimes.
MaxEvTicks == 2
\* A client sends no further valid event once its counter is MaxOver above
\* RATE_MAX.
MaxOver == 2
\* With several clients: a client sends at most MaxBurst valid events per
\* rate window.
MaxBurst == 1

\* "dock_viewed"
DockViewed == <<100, 111, 99, 107, 95, 118, 105, 101, 119, 101, 100>>
\* "dock_expanded"
DockExpanded == <<100, 111, 99, 107, 95, 101, 120, 112, 97, 110, 100, 101, 100>>
\* "dock_collapsed"
DockCollapsed == <<100, 111, 99, 107, 95, 99, 111, 108, 108, 97, 112, 115, 101, 100>>
\* "site_click"
SiteClick == <<115, 105, 116, 101, 95, 99, 108, 105, 99, 107>>
\* "cta_click"
CtaClick == <<99, 116, 97, 95, 99, 108, 105, 99, 107>>
\* "social_click"
SocialClick == <<115, 111, 99, 105, 97, 108, 95, 99, 108, 105, 99, 107>>
\* "unknown"
Unknown == <<117, 110, 107, 110, 111, 119, 110>>
\* "::"
KeySep == <<58, 58>>

EventTypes == {DockViewed, DockExpanded, DockCollapsed, SiteClick, CtaClick, SocialClick}

\* Mutant: every type is accepted.
MutIsValidEventTypeAny(v) == TRUE

isValidEventType(v) == v \in EventTypes

keyOf(e) == e.siteId \o KeySep \o e.campaignId \o KeySep \o e.eventType \o KeySep \o e.href

\* The headers of a request: xff is x-forwarded-for, realIp x-real-ip, ua
\* user-agent.
getIp(h) ==
    LET first == TrimStr(SplitComma(h.xff)[1]) IN
    IF first # << >> THEN first
    ELSE IF h.realIp # << >> THEN h.realIp
    ELSE Unknown

\* The object e built from the parsed body, lines 60-66.
EventOf(b) ==
    [siteId |-> TrimStr(b.siteId),
     campaignId |-> TrimStr(b.campaignId),
     eventType |-> TrimStr(b.eventType),
     ts |-> b.ts,
     href |-> b.href]

\* Map.prototype.get on a sequence of entries keyed by field k: << >> or <<entry>>.
MapGet(m, k) ==
    IF \E i \in 1..Len(m) : m[i].k = k
    THEN <<m[CHOOSE i \in 1..Len(m) : m[i].k = k]>>
    ELSE << >>

\* Map.prototype.set: an existing key keeps its place.
MapSet(m, entry) ==
    IF \E i \in 1..Len(m) : m[i].k = entry.k
    THEN [i \in 1..Len(m) |-> IF m[i].k = entry.k THEN entry ELSE m[i]]
    ELSE Append(m, entry)

\* Lines 76-82: the rate entry of the client after this event.
RateAfter(r, ip, now) ==
    LET cur == MapGet(r, ip) IN
    IF cur = << >> \/ now - cur[1].windowStart > RATE_WINDOW_MS
    THEN MapSet(r, [k |-> ip, windowStart |-> now, count |-> 1])
    ELSE MapSet(r, [cur[1] EXCEPT !.count = cur[1].count + 1])

\* r.count > RATE_MAX, tested only when the entry was not replaced.
IsLimited(r, ip, now) ==
    LET cur == MapGet(r, ip) IN
    /\ cur # << >>
    /\ ~(now - cur[1].windowStart > RATE_WINDOW_MS)
    /\ cur[1].count + 1 > RATE_MAX

\* Mutant: the window is 30 ms.
MutIsDuplicateShortWindow(d, k, now) ==
    LET last == MapGet(d, k) IN
    last # << >> /\ last[1].ts # 0 /\ now - last[1].ts < DEDUPE_MS \div 1000

\* last && now - last < DEDUPE_MS
IsDuplicate(d, k, now) ==
    LET last == MapGet(d, k) IN
    last # << >> /\ last[1].ts # 0 /\ now - last[1].ts < DEDUPE_MS

\* now - ts > DEDUPE_MS
IsOld(entry, now) == now - entry.ts > DEDUPE_MS

\* Lines 95-98: the walk goes over the entries in insertion order, deletes
\* the old ones and stops after the entry at which fewer than 3000 are left,
\* that is at the old entry number need = size - 2999.  PruneStop is the
\* position of that entry among d[lo..hi], found by halving.
RECURSIVE PruneStop(_, _, _, _, _)
PruneStop(d, now, lo, hi, need) ==
    IF lo = hi THEN lo
    ELSE LET mid == (lo + hi) \div 2
             c == Cardinality({i \in lo..mid : IsOld(d[i], now)})
         IN  IF c >= need THEN PruneStop(d, now, lo, mid, need)
             ELSE PruneStop(d, now, mid + 1, hi, need - c)

\* Mutant: a Map of more than 5000 entries is emptied.
MutPruneClears(d, now) == IF Len(d) > 5000 THEN << >> ELSE d

\* Lines 93-99.
Prune(d, now) ==
    IF Len(d) > 5000
    THEN LET need == Len(d) - 2999
             old == Cardinality({i \in 1..Len(d) : IsOld(d[i], now)})
             stop == IF old >= need THEN PruneStop(d, now, 1, Len(d), need) ELSE Len(d)
             Keep(entry) == ~IsOld(entry, now)
         IN  SelectSeq(SubSeq(d, 1, stop), Keep) \o SubSeq(d, stop + 1, Len(d))
    ELSE d

\* The object given to console.log, lines 103-112.
LogEntry(r, e, ip, now) ==
    [serverTs |-> now, ip |-> ip, siteId |-> e.siteId, campaignId |-> e.campaignId,
     eventType |-> e.eventType, href |-> e.href, clientTs |-> e.ts, ua |-> r.headers.ua]

\* Mutant: an unparsable body is answered 400.
MutAnswerBadRequest(r, outcome) ==
    [request |-> r, at |-> clock, status |-> IF outcome = "unparsable" THEN 400 ELSE 204,
     body |-> "", outcome |-> outcome]

\* new Response(null, { status: 204 }) at one of the five return statements,
\* kept with the request it answers and the instant the request arrived.
Answer(r, outcome) == [request |-> r, at |-> clock, status |-> 204, body |-> "", outcome |-> outcome]

\* The events of a client that got past the rate limit at the instant now
\* go up by one.
Passed(rec, ip, now) ==
    IF \E x \in rec : x.ip = ip /\ x.at = now
    THEN { IF x.ip = ip /\ x.at = now THEN [x EXCEPT !.n = x.n + 1] ELSE x : x \in rec }
    ELSE rec \cup { [ip |-> ip, at |-> now, n |-> 1] }

\* Mutant: a discarded repetition sets the entry of its key again.
MutPostEventRefreshOnDuplicate(r) ==
    LET e == EventOf(r.json)
        ip == getIp(r.headers)
        now == clock
        k == keyOf(e)
    IN  IF ~r.json.ok
        THEN post' = Answer(r, "unparsable") /\ UNCHANGED <<dedupe, rate, evlog, recent>>
        ELSE IF e.siteId = << >> \/ e.campaignId = << >> \/ e.eventType = << >>
                \/ ~isValidEventType(e.eventType)
        THEN post' = Answer(r, "invalid") /\ UNCHANGED <<dedupe, rate, evlog, recent>>
        ELSE IF IsLimited(rate, ip, now)
        THEN /\ rate' = RateAfter(rate, ip, now)
             /\ post' = Answer(r, "limited")
             /\ UNCHANGED <<dedupe, evlog, recent>>
        ELSE IF IsDuplicate(dedupe, k, now)
        THEN /\ rate' = RateAfter(rate, ip, now)
             /\ recent' = Passed(recent, ip, now)
             /\ post' = Answer(r, "duplicate")
             /\ dedupe' = MapSet(dedupe, [k |-> k, ts |-> now])
             /\ UNCHANGED evlog
        ELSE /\ rate' = RateAfter(rate, ip, now)
             /\ recent' = Passed(recent, ip, now)
             /\ dedupe' = Prune(MapSet(dedupe, [k |-> k, ts |-> now]), now)
             /\ evlog' = Append(evlog, LogEntry(r, e, ip, now))
             /\ post' = Answer(r, "logged")

\* Mutant: the key holds the client as well.
MutPostEventKeyWithIp(r) ==
    LET e == EventOf(r.json)
        ip == getIp(r.headers)
        now == clock
        k == keyOf(e) \o KeySep \o ip
    IN  IF ~r.json.ok
        THEN post' = Answer(r, "unparsable") /\ UNCHANGED <<dedupe, rate, evlog, recent>>
        ELSE IF e.siteId = << >> \/ e.campaignId = << >> \/ e.eventType = << >>
                \/ ~isValidEventType(e.eventType)
        THEN post' = Answer(r, "invalid") /\ UNCHANGED <<dedupe, rate, evlog, recent>>
        ELSE IF IsLimited(rate, ip, now)
        THEN /\ rate' = RateAfter(rate, ip, now)
             /\ post' = Answer(r, "limited")
             /\ UNCHANGED <<dedupe, evlog, recent>>
        ELSE IF IsDuplicate(dedupe, k, now)
        THEN /\ rate' = RateAfter(rate, ip, now)
             /\ recent' = Passed(recent, ip, now)
             /\ post' = Answer(r, "duplicate")
             /\ UNCHANGED <<dedupe, evlog>>
        ELSE /\ rate' = RateAfter(rate, ip, now)
             /\ recent' = Passed(recent, ip, now)
             /\ dedupe' = Prune(MapSet(dedupe, [k |-> k, ts |-> now]), now)
             /\ evlog' = Append(evlog, LogEntry(r, e, ip, now))
             /\ post' = Answer(r, "logged")

\* Mutant: a repetition is discarded without being counted.
MutPostEventDuplicateFree(r) ==
    LET e == EventOf(r.json)
        ip == getIp(r.headers)
        now == clock
        k == keyOf(e)
    IN  IF ~r.json.ok
        THEN post' = Answer(r, "unparsable") /\ UNCHANGED <<dedupe, rate, evlog, recent>>
        ELSE IF e.siteId = << >> \/ e.campaignId = << >> \/ e.eventType = << >>
                \/ ~isValidEventType(e.eventType)
        THEN post' = Answer(r, "invalid") /\ UNCHANGED <<dedupe, rate, evlog, recent>>
        ELSE IF IsLimited(rate, ip, now)
        THEN /\ rate' = RateAfter(rate, ip, now)
             /\ post' = Answer(r, "limited")
             /\ UNCHANGED <<dedupe, evlog, recent>>
        ELSE IF IsDuplicate(dedupe, k, now)
        THEN /\ post' = Answer(r, "duplicate")
             /\ UNCHANGED <<dedupe, rate, evlog, recent>>
        ELSE /\ rate' = RateAfter(rate, ip, now)
             /\ recent' = Passed(recent, ip, now)
             /\ dedupe' = Prune(MapSet(dedupe, [k |-> k, ts |-> now]), now)
             /\ evlog' = Append(evlog, LogEntry(r, e, ip, now))
             /\ post' = Answer(r, "logged")

\* POST, lines 50-115, for the request r = [json, headers]; json.ok tells
\* whether request.json() returned.
PostEvent(r) ==
    LET e == EventOf(r.json)
        ip == getIp(r.headers)
        now == clock
        k == keyOf(e)
    IN  IF ~r.json.ok
        THEN post' = Answer(r, "unparsable") /\ UNCHANGED <<dedupe, rate, evlog, recent>>
        ELSE IF e.siteId = << >> \/ e.campaignId = << >> \/ e.eventType = << >>
                \/ ~isValidEventType(e.eventType)
        THEN post' = Answer(r, "invalid") /\ UNCHANGED <<dedupe, rate, evlog, recent>>
        ELSE IF IsLimited(rate, ip, now)
        THEN /\ rate' = RateAfter(rate, ip, now)
             /\ post' = Answer(r, "limited")
             /\ UNCHANGED <<dedupe, evlog, recent>>
        ELSE IF IsDuplicate(dedupe, k, now)
        THEN /\ rate' = RateAfter(rate, ip, now)
             /\ recent' = Passed(recent, ip, now)
             /\ post' = Answer(r, "duplicate")
             /\ UNCHANGED <<dedupe, evlog>>
        ELSE /\ rate' = RateAfter(rate, ip, now)
             /\ recent' = Passed(recent, ip, now)
             /\ dedupe' = Prune(MapSet(dedupe, [k |-> k, ts |-> now]), now)
             /\ evlog' = Append(evlog, LogEntry(r, e, ip, now))
             /\ post' = Answer(r, "logged")

\* The instants at which events arrive: 29999 ms, 30002 ms, 30000 ms and
\* 60000 ms after the one before, then 1 ms.
EvTimes == <<1, 30000, 60002, 90002, 150002, 150003>>
EvInstants == { EvTimes[i] : i \in 1..(MaxEvTicks + 1) }

\* Time passes; the history forgets what is 60 s old or older.
EvTick ==
    /\ \E t \in EvInstants :
          /\ t > clock
          /\ \A u \in EvInstants : u > clock => t <= u
          /\ clock' = t
    /\ recent' = { x \in recent : clock' - x.at < 60000 }
    /\ UNCHANGED <<dedupe, rate, evlog, post>>

\* The counter of the client of request r, 0 without an entry.
CountOf(r) ==
    LET cur == MapGet(rate, getIp(r.headers)) IN IF cur = << >> THEN 0 ELSE cur[1].count

\* Requests.
BodyUnparsable == [ok |-> FALSE, siteId |-> << >>, campaignId |-> << >>, eventType |-> << >>, ts |-> << >>, href |-> << >>]
BodyNull == [ok |-> TRUE, siteId |-> << >>, campaignId |-> << >>, eventType |-> << >>, ts |-> << >>, href |-> << >>]
BodyClick == [ok |-> TRUE, siteId |-> <<115, 49>>, campaignId |-> <<99, 49>>, eventType |-> CtaClick, ts |-> << >>, href |-> << >>]
BodyClickPadded == [BodyClick EXCEPT !.siteId = <<32, 115, 49, 32>>, !.eventType = <<32>> \o CtaClick]
BodyClickHref == [BodyClick EXCEPT !.href = UrlHttps]
BodyBlankSite == [BodyClick EXCEPT !.siteId = Blank]
BodyNoCampaign == [BodyClick EXCEPT !.campaignId = << >>]
BodyBadType == [BodyClick EXCEPT !.eventType = <<99, 108, 105, 99, 107>>]
BodyUpperType == [BodyClick EXCEPT !.eventType = <<67, 84, 65, 95, 67, 76, 73, 67, 75>>]

HeadersA == [xff |-> <<32, 49, 32, 44, 50>>, realIp |-> <<50>>, ua |-> <<117>>]
HeadersB == [xff |-> << >>, realIp |-> <<50>>, ua |-> << >>]
HeadersNone == [xff |-> << >>, realIp |-> << >>, ua |-> << >>]

EvBodies ==
    {BodyUnparsable, BodyNull, BodyClick, BodyClickPadded, BodyClickHref,
     BodyBlankSite, BodyNoCampaign, BodyBadType, BodyUpperType}
EvRequests == [json : EvBodies, headers : {HeadersA, HeadersB}]
RateRequests == [json : {BodyUnparsable, BodyBlankSite, BodyClick}, headers : {HeadersNone}]

EvInit ==
    /\ clock = EvTimes[1]
    /\ dedupe = << >> /\ rate = << >> /\ evlog = << >> /\ recent = {} /\ post = NoPost
    /\ cache = << >> /\ env = [sheetId |-> TRUE, saJson |-> TRUE]
    /\ sheet = [campaigns |-> << >>, sites |-> << >>]
    /\ calls = [c \in 1..MaxCalls |-> IdleCall]
    /\ SelIdle
    /\ GetIdle
    /\ RowIdle
    /\ GridIdle
    /\ LiveIdle
    /\ ContactIdle
    /\ VariantIdle

\* Several clients, each sending few events.
EvNext ==
    \/ \E r \in EvRequests :
          CountOf(r) < MaxBurst /\ PostEvent(r) /\ UNCHANGED <<clock, cache, env, sheet, calls, selVars, getVars, rowVars, gridVars, liveVars, contactVars, rawEnv>>
    \/ EvTick /\ UNCHANGED <<cache, env, sheet, calls, selVars, getVars, rowVars, gridVars, liveVars, contactVars, rawEnv>>

SpecEvent == EvInit /\ [][EvNext]_vars

\* One client sending many events.
RateNext ==
    \/ \E r \in RateRequests :
          CountOf(r) < RATE_MAX + MaxOver /\ PostEvent(r) /\ UNCHANGED <<clock, cache, env, sheet, calls, selVars, getVars, rowVars, gridVars, liveVars, contactVars, rawEnv>>
    \/ EvTick /\ UNCHANGED <<cache, env, sheet, calls, selVars, getVars, rowVars, gridVars, liveVars, contactVars, rawEnv>>

SpecRate == EvInit /\ [][RateNext]_vars

(***************************************************************************)
(* POST /api/event with a de-duplication table of about 5000 entries, left *)
(* by events of other keys before the events observed here.                *)
(***************************************************************************)
\* The instants: the second is 29999 ms after the first.
PruneInstants == {100000, 129999}

PruneTick ==
    /\ \E t \in PruneInstants :
          /\ t > clock
          /\ \A u \in PruneInstants : u > clock => t <= u
          /\ clock' = t
    /\ recent' = { x \in recent : clock' - x.at < 60000 }
    /\ UNCHANGED <<dedupe, rate, evlog, post>>

\* A table of n entries under keys of their own, the first old ones set
\* 30001 ms before the first instant, the others at it.
FillTable(n, old) ==
    [i \in 1..n |-> [k |-> <<102, i>>, ts |-> IF i <= old THEN 69999 ELSE 100000]]

\* One entry short of the threshold or at it; no, two, 3000 or only old
\* entries.
FillTables ==
    {FillTable(4999, 2), FillTable(5000, 0), FillTable(5000, 3000), FillTable(5000, 5000)}

PruneRequests == [json : {BodyClick, BodyClickHref}, headers : {HeadersA}]

PruneInit ==
    /\ clock = 100000
    /\ dedupe \in FillTables
    /\ rate = << >> /\ evlog = << >> /\ recent = {} /\ post = NoPost
    /\ cache = << >> /\ env = [sheetId |-> TRUE, saJson |-> TRUE]
    /\ sheet = [campaigns |-> << >>, sites |-> << >>]
    /\ calls = [c \in 1..MaxCalls |-> IdleCall]
    /\ SelIdle
    /\ GetIdle
    /\ RowIdle
    /\ GridIdle
    /\ LiveIdle
    /\ ContactIdle
    /\ VariantIdle

PruneNext ==
    \/ \E r \in PruneRequests :
          CountOf(r) < MaxBurst + 2 /\ PostEvent(r) /\ UNCHANGED <<clock, cache, env, sheet, calls, selVars, getVars, rowVars, gridVars, liveVars, contactVars, rawEnv>>
    \/ PruneTick /\ UNCHANGED <<cache, env, sheet, calls, selVars, getVars, rowVars, gridVars, liveVars, contactVars, rawEnv>>

SpecPrune == PruneInit /\ [][PruneNext]_vars

(***************************************************************************)
(* POST /api/event with repetitions just inside and just outside the       *)
(* window: 29999, 30000 and 1 ms apart.                                    *)
(***************************************************************************)
RepeatInstants == {1, 30000, 30001}

RepeatTick ==
    /\ \E t \in RepeatInstants :
          /\ t > clock
          /\ \A u \in RepeatInstants : u > clock => t <= u
          /\ clock' = t
    /\ recent' = { x \in recent : clock' - x.at < 60000 }
    /\ UNCHANGED <<dedupe, rate, evlog, post>>

RepeatRequests == [json : {BodyClick, BodyClickPadded, BodyClickHref}, headers : {HeadersA, HeadersB}]

RepeatNext ==
    \/ \E r \in RepeatRequests :
          CountOf(r) < MaxBurst + 2 /\ PostEvent(r) /\ UNCHANGED <<clock, cache, env, sheet, calls, selVars, getVars, rowVars, gridVars, liveVars, contactVars, rawEnv>>
    \/ RepeatTick /\ UNCHANGED <<cache, env, sheet, calls, selVars, getVars, rowVars, gridVars, liveVars, contactVars, rawEnv>>

SpecRepeat == EvInit /\ [][RepeatNext]_vars

(***************************************************************************)
(* The two endpoints in one process: GET /api/sponsor and POST /api/event  *)
(* are handled in any order, a POST also while a GET awaits the sheet.     *)
(***************************************************************************)
\* Mutant: handling an event empties the inventory cache.
MutPostHandlerClearsCache(r) ==
    /\ Quiet
    /\ PostEvent(r)
    /\ cache' = << >>
    /\ UNCHANGED <<clock, env, sheet, calls>>

\* The POST handler and the module it is in: nothing of getInventory is
\* imported, read or written.
PostHandler(r) ==
    /\ Quiet
    /\ PostEvent(r)
    /\ UNCHANGED cacheVars

ServerRequests == [json : {BodyUnparsable, BodyBadType, BodyClick}, headers : {HeadersA}]

\* Time passes; the history forgets what is 60 s old or older.
ServerTick ==
    /\ Tick
    /\ recent' = { x \in recent : clock' - x.at < 60000 }
    /\ UNCHANGED <<dedupe, rate, evlog, post>>

ServerInit ==
    /\ clock = TimeAt(1)
    /\ cache = << >>
    /\ env \in [sheetId : BOOLEAN, saJson : BOOLEAN]
    /\ sheet \in Inventories
    /\ calls = [c \in Callers |-> IdleCall]
    /\ SelIdle
    /\ GetIdle
    /\ RowIdle
    /\ EvIdle
    /\ GridIdle
    /\ LiveIdle
    /\ ContactIdle
    /\ VariantIdle

ServerNext ==
    \/ GetReject /\ UNCHANGED <<selVars, rowVars, evVars, gridVars, liveVars, contactVars, rawEnv>>
    \/ GetBegin /\ UNCHANGED <<selVars, rowVars, evVars, gridVars, liveVars, contactVars, rawEnv>>
    \/ GetFinish /\ UNCHANGED <<selVars, rowVars, evVars, gridVars, liveVars, contactVars, rawEnv>>
    \/ GetClose /\ UNCHANGED <<selVars, rowVars, evVars, gridVars, liveVars, contactVars, rawEnv>>
    \/ FetchResolve(1) /\ UNCHANGED <<selVars, getVars, rowVars, evVars, gridVars, liveVars, contactVars, rawEnv>>
    \/ FetchReject(1) /\ UNCHANGED <<selVars, getVars, rowVars, evVars, gridVars, liveVars, contactVars, rawEnv>>
    \/ \E r \in ServerRequests :
          CountOf(r) < MaxBurst /\ PostHandler(r) /\ UNCHANGED <<selVars, getVars, rowVars, gridVars, liveVars, contactVars, rawEnv>>
    \/ ServerTick /\ UNCHANGED <<selVars, getVars, rowVars, gridVars, liveVars, contactVars, rawEnv>>
    \/ EditSheet /\ UNCHANGED <<selVars, getVars, rowVars, evVars, gridVars, liveVars, contactVars, rawEnv>>

SpecServer == ServerInit /\ [][ServerNext]_vars

(***************************************************************************)
(* The contact flow of the Sheet API (Apps Script): a contact request is   *)
(* stored with a token, the sender verifies the address with the token,    *)
(* the owner is notified.  Every call of the Spreadsheet and Mail services *)
(* is one step; executions of the web app overlap between such calls, and  *)
(* the script takes no lock.                                               *)
(***************************************************************************)
\* Utilities.getUuid(): the token of the n-th request, a fresh value.
Uuid(n) == <<"uuid", n>>

\* createdAt.getTime() + VERIFY_TOKEN_TTL_MIN * 60 * 1000
ExpiresAt(createdAt) == createdAt + VERIFY_TOKEN_TTL_MIN * 60 * 1000

\* new Date() in the script: the instants up to and after the expiry of a
\* token created at 0.
ContactInstants == {0, ExpiresAt(0), ExpiresAt(0) + 1}

\* The senders of contact requests; each sends one request.
Senders == {"u@x", "v@y"}

\* email and message of the body of a contact request, trimmed.
ContactBodies == [email : {""} \cup Senders, message : {"", "hi"}]

\* params.token of a verify_email request: missing, the token of a request,
\* or a token no request has (Uuid(0)).
RawTokens == { << >> } \cup { Uuid(n) : n \in 0..Cardinality(Senders) }

\* rows.find(r => toStr_(r.token) === token): the number of the first row
\* with the token, 0 when there is none.
FindToken(rows, token) ==
    IF \E i \in 1..Len(rows) : rows[i].token = token
    THEN CHOOSE i \in 1..Len(rows) : rows[i].token = token /\ \A j \in 1..(i - 1) : rows[j].token # token
    ELSE 0

\* The mail of notifyOwnerVerifiedLead_ for a row, to the one address of
\* NOTIFY_EMAILS.  request is the number of the row, kept for the record.
notifyOwnerVerifiedLead_(r, n) ==
    [kind |-> "owner", to |-> "owner", email |-> r.email, request |-> n]

\* The mail of sendVerificationEmail_.
sendVerificationEmail_(to, token, n) ==
    [kind |-> "verification", to |-> to, email |-> to, request |-> n]

\* createContactRequestWithVerification_, lines 822-847: a body without
\* email or message is refused and changes nothing; otherwise the row is
\* appended unverified and the verification mail is sent to the sender.
createContactRequestWithVerification_ ==
    /\ \E b \in ContactBodies :
          /\ b.email # "" /\ b.message # ""
          /\ \A i \in 1..Len(contactSheet) : contactSheet[i].email # b.email
          /\ LET n == Len(contactSheet) + 1
                 r == [timestamp |-> clock, email |-> b.email, verified |-> FALSE, token |-> Uuid(n),
                       token_expires_at |-> ExpiresAt(clock), verified_at |-> << >>]
             IN  /\ contactSheet' = Append(contactSheet, r)
                 /\ mailbox' = Append(mailbox, sendVerificationEmail_(b.email, Uuid(n), n))
    /\ UNCHANGED <<clock, verifier>>

Page(ok, message) == <<[ok |-> ok, message |-> message]>>

\* Mutant: the expiry of the token is not looked at.
MutVerifyReadNoExpiry(p) ==
    /\ verifier[p].pc = "idle"
    /\ \E token \in RawTokens :
          LET m == FindToken(contactSheet, token)
              Done(ok, message) == [pc |-> "done", token |-> << >>, match |-> 0, now |-> 0,
                                    page |-> Page(ok, message)]
          IN  verifier' = [verifier EXCEPT ![p] =
                 IF token = << >> THEN Done(FALSE, "Missing token.")
                 ELSE IF m = 0 THEN Done(FALSE, "Token not found.")
                 ELSE IF contactSheet[m].verified THEN Done(TRUE, "Already verified.")
                 ELSE [pc |-> "mark", token |-> token, match |-> m, now |-> clock, page |-> << >>]]
    /\ UNCHANGED <<clock, contactSheet, mailbox>>

\* verifyEmail_, lines 850-865: the rows are read, the row of the token is
\* looked up, and its verified flag and expiry decide.
VerifyRead(p) ==
    /\ verifier[p].pc = "idle"
    /\ \E token \in RawTokens :
          LET m == FindToken(contactSheet, token)
              Done(ok, message) == [pc |-> "done", token |-> << >>, match |-> 0, now |-> 0,
                                    page |-> Page(ok, message)]
          IN  verifier' = [verifier EXCEPT ![p] =
                 IF token = << >> THEN Done(FALSE, "Missing token.")
                 ELSE IF m = 0 THEN Done(FALSE, "Token not found.")
                 ELSE IF contactSheet[m].verified THEN Done(TRUE, "Already verified.")
                 ELSE IF clock > contactSheet[m].token_expires_at THEN Done(FALSE, "Verification link expired.")
                 ELSE [pc |-> "mark", token |-> token, match |-> m, now |-> clock, page |-> << >>]]
    /\ UNCHANGED <<clock, contactSheet, mailbox>>

\* Lines 867-878: the header row is read, and the two cells of the row are
\* written, verified with true and verified_at with now_().
VerifyMark(p) ==
    /\ verifier[p].pc = "mark"
    /\ contactSheet' = [contactSheet EXCEPT ![verifier[p].match].verified = TRUE,
                                            ![verifier[p].match].verified_at = <<clock>>]
    /\ verifier' = [verifier EXCEPT ![p].pc = "notify"]
    /\ UNCHANGED <<clock, mailbox>>

\* Lines 881-883: notifyOwnerVerifiedLead_(match) and the page.
VerifyNotify(p) ==
    /\ verifier[p].pc = "notify"
    /\ mailbox' = Append(mailbox, notifyOwnerVerifiedLead_(contactSheet[verifier[p].match], verifier[p].match))
    /\ verifier' = [verifier EXCEPT ![p] = [pc |-> "done", token |-> << >>, match |-> 0, now |-> 0,
                                            page |-> Page(TRUE, "Verified. Thank you.")]]
    /\ UNCHANGED <<clock, contactSheet>>

\* The page is sent.
VerifyClose(p) ==
    /\ verifier[p].pc = "done"
    /\ verifier' = [verifier EXCEPT ![p] = IdleVerifier]
    /\ UNCHANGED <<clock, contactSheet, mailbox>>

ContactTick ==
    /\ \E t \in ContactInstants :
          /\ t > clock
          /\ \A u \in ContactInstants : u > clock => t <= u
          /\ clock' = t
    /\ UNCHANGED contactVars

ContactInit ==
    /\ clock = 0 /\ cache = << >> /\ env = [sheetId |-> TRUE, saJson |-> TRUE]
    /\ sheet = [campaigns |-> << >>, sites |-> << >>]
    /\ calls = [c \in 1..MaxCalls |-> IdleCall]
    /\ SelIdle
    /\ GetIdle
    /\ RowIdle
    /\ EvIdle
    /\ GridIdle
    /\ LiveIdle
    /\ ContactIdle
    /\ VariantIdle

ContactNext ==
    \/ createContactRequestWithVerification_ /\ UNCHANGED <<cache, env, sheet, calls, selVars, getVars, rowVars, evVars, gridVars, liveVars, rawEnv>>
    \/ \E p \in 1..MaxVerifiers : VerifyRead(p) /\ UNCHANGED <<cache, env, sheet, calls, selVars, getVars, rowVars, evVars, gridVars, liveVars, rawEnv>>
    \/ \E p \in 1..MaxVerifiers : VerifyMark(p) /\ UNCHANGED <<cache, env, sheet, calls, selVars, getVars, rowVars, evVars, gridVars, liveVars, rawEnv>>
    \/ \E p \in 1..MaxVerifiers : VerifyNotify(p) /\ UNCHANGED <<cache, env, sheet, calls, selVars, getVars, rowVars, evVars, gridVars, liveVars, rawEnv>>
    \/ \E p \in 1..MaxVerifiers : VerifyClose(p) /\ UNCHANGED <<cache, env, sheet, calls, selVars, getVars, rowVars, evVars, gridVars, liveVars, rawEnv>>
    \/ ContactTick /\ UNCHANGED <<cache, env, sheet, calls, selVars, getVars, rowVars, evVars, gridVars, liveVars, rawEnv>>

SpecContact == ContactInit /\ [][ContactNext]_vars

(***************************************************************************)
(* The second variant of the inventory module, getInventory.ts lines       *)
(* 268-531, as operators, and the first variant run on the same inputs.    *)
(* Each behaviour exercises one function: mapCampaign on a row, the        *)
(* mapping of the two tabs, selectCampaign on a call, or getInventory with *)
(* one caller under an environment fixed at the start.                     *)
(***************************************************************************)
\* Lines 318-320.
toLowerSafe(v) == ToLowerCase(TrimStr(v))

\* Lines 322-324.
asStatusV2(v) == IF toLowerSafe(v) = Paused THEN "paused" ELSE "active"

\* Lines 331-336.
isHttpsUrlV2(url) ==
    LET u == TrimStr(url) IN
    IF u = << >> THEN FALSE ELSE StartsWith(u, Https)

\* Lines 338-342.
coerceWeightV2(v) ==
    LET n == NumberOf(TrimStr(v)) IN
    IF n.nan \/ n.num <= 0 THEN 1 ELSE (2 * n.num + n.den) \div (2 * n.den)

\* Lines 359-412.
mapCampaignV2(r) ==
    IF r.campaign_id = << >> THEN << >>
    ELSE LET status == asStatusV2(r.status)
             weight == coerceWeightV2(r.weight)
             brand_name == clampStr(r.brand_name, 35)
             headline == clampStr(r.headline, 45)
             subline == clampStr(r.subline, 75)
             site_url == TrimStr(r.site_url)
             logo_url == TrimStr(r.logo_url)
             cta_label == clampStr(r.cta_label, 18)
             cta_url == TrimStr(r.cta_url)
             wa_url == TrimStr(r.wa_url)
             ig_url == TrimStr(r.ig_url)
         IN  IF brand_name = << >> \/ headline = << >> \/ subline = << >> THEN << >>
             ELSE IF ~isHttpsUrlV2(site_url) \/ ~isHttpsUrlV2(logo_url) THEN << >>
             ELSE IF cta_label # << >> /\ (cta_url = << >> \/ ~isHttpsUrlV2(cta_url)) THEN << >>
             ELSE IF wa_url # << >> /\ ~isHttpsUrlV2(wa_url) THEN << >>
             ELSE IF ig_url # << >> /\ ~isHttpsUrlV2(ig_url) THEN << >>
             ELSE <<[campaign_id |-> r.campaign_id, status |-> status, weight |-> weight,
                     brand_name |-> brand_name, headline |-> headline, subline |-> subline,
                     site_url |-> site_url, logo_url |-> logo_url,
                     cta_label |-> cta_label, cta_url |-> cta_url, cta_type |-> TrimStr(r.cta_type),
                     wa_url |-> wa_url, ig_url |-> ig_url,
                     competitor_group |-> TrimStr(r.competitor_group),
                     target_groups |-> parseCsvList(r.target_groups),
                     start_date |-> TrimStr(r.start_date), end_date |-> TrimStr(r.end_date)]>>

\* Lines 414-428.
mapSiteV2(r) ==
    IF Field(r, Name.site_id) = << >> THEN << >>
    ELSE LET status == asStatusV2(Field(r, Name.status))
             blocked == parseCsvList(Field(r, Name.blocked_competitor_groups))
             groups == parseCsvList(Field(r, Name.groups))
         IN  <<[site_id |-> Field(r, Name.site_id), status |-> status,
                blocked_competitor_groups |-> blocked, groups |-> groups]>>

\* Lines 513-522: { campaigns, sites }.
InventoryOfV2(ads, sites) ==
    LET adsRows == sheetRowsToObjects(ads)
        siteRows == sheetRowsToObjects(sites)
    IN  [campaigns |-> FilterBoolean([k \in 1..Len(adsRows) |-> mapCampaignV2(AdsRowOf(adsRows[k]))]),
         sites |-> FilterBoolean([k \in 1..Len(siteRows) |-> mapSiteV2(siteRows[k])])]

\* Lines 438-472.
selectCampaignV2(a, k) ==
    LET Keep(c) ==
            IF c.status # "active" THEN FALSE
            ELSE IF ~isWithinDateWindow(a.now, c.start_date, c.end_date) THEN FALSE
            ELSE IF c.competitor_group # "" /\ Includes(a.site.blocked_competitor_groups, c.competitor_group) THEN FALSE
            ELSE TRUE
        eligible == SelectSeq(a.campaigns, Keep)
        IsPreferred(c) == c.campaign_id = a.preferCampaignId
        preferred == SelectSeq(eligible, IsPreferred)
    IN  IF Len(eligible) = 0 THEN << >>
        ELSE IF a.preferCampaignId # "" /\ preferred # << >> THEN <<preferred[1]>>
        ELSE Roulette(eligible, 1, k * TotalWeight(eligible))

\* getEnv of the first variant, lines 203-210: (viteEnv ?? nodeEnv), and a
\* throw when the value is undefined or empty.  TRUE: the value is returned.
getEnv(raw, name) ==
    LET v == IF raw.vite[name] # << >> THEN raw.vite[name] ELSE raw.node[name]
    IN  v # << >> /\ v # <<"">>

\* getEnv of the second variant, lines 474-478: process.env only.
getEnvV2(raw, name) == raw.node[name] # << >> /\ raw.node[name] # <<"">>

\* getInventory of the second variant, lines 501-530, run to its end on
\* the cache c, with Date.now() = now, the reads of the two tabs ending as
\* outcome says and giving the inventory inv.
getInventoryV2(raw, c, now, outcome, inv) ==
    IF c # << >> /\ now - c[1].fetchedAt < TTL_MS
    THEN [threw |-> FALSE, result |-> <<c[1].value>>, cache |-> c]
    ELSE IF ~getEnvV2(raw, "sheetId")
    THEN [threw |-> TRUE, result |-> << >>, cache |-> c]
    ELSE IF getEnvV2(raw, "saJson") /\ outcome = "resolved"
    THEN [threw |-> FALSE, result |-> <<inv>>, cache |-> <<[value |-> inv, fetchedAt |-> now]>>]
    ELSE IF c # << >> /\ now - c[1].fetchedAt < STALE_MS
    THEN [threw |-> FALSE, result |-> <<c[1].value>>, cache |-> c]
    ELSE [threw |-> TRUE, result |-> << >>, cache |-> c]

\* A variable is undefined, empty or set in import.meta.env, undefined or
\* set in process.env.
RawEnvs ==
    [vite : [sheetId : {<< >>, <<"">>, <<"x">>}, saJson : {<< >>, <<"x">>}],
     node : [sheetId : {<< >>, <<"x">>}, saJson : {<< >>, <<"x">>}]]

VariantsInit ==
    \/ RowInit
    \/ GridInit
    \/ SelInit
    \/ /\ rawEnv \in RawEnvs
       /\ env = [sheetId |-> getEnv(rawEnv, "sheetId"), saJson |-> getEnv(rawEnv, "saJson")]
       /\ clock = 0 /\ cache = << >>
       /\ sheet \in Inventories
       /\ calls = [c \in Callers |-> IdleCall]
       /\ SelIdle
       /\ GetIdle
       /\ RowIdle
       /\ EvIdle
       /\ GridIdle
       /\ LiveIdle
       /\ ContactIdle

\* The behaviours that exercise getInventory.
GetCase == selPc = "idle" /\ rowPc = "idle" /\ gridPc = "idle"

VariantsNext ==
    \/ MapRow /\ UNCHANGED <<selVars, cacheVars, getVars, evVars, gridVars, liveVars, contactVars, rawEnv>>
    \/ BuildInventory /\ UNCHANGED <<selVars, cacheVars, getVars, rowVars, evVars, liveVars, contactVars, rawEnv>>
    \/ Select
    \/ GetCase /\ StartCall(1) /\ UNCHANGED <<selVars, getVars, rowVars, evVars, gridVars, liveVars, contactVars, rawEnv>>
    \/ GetCase /\ FetchResolve(1) /\ UNCHANGED <<selVars, getVars, rowVars, evVars, gridVars, liveVars, contactVars, rawEnv>>
    \/ GetCase /\ FetchReject(1) /\ UNCHANGED <<selVars, getVars, rowVars, evVars, gridVars, liveVars, contactVars, rawEnv>>
    \/ GetCase /\ Continue(1) /\ UNCHANGED <<selVars, getVars, rowVars, evVars, gridVars, liveVars, contactVars, rawEnv>>
    \/ GetCase /\ Tick /\ UNCHANGED <<selVars, getVars, rowVars, evVars, gridVars, liveVars, contactVars, rawEnv>>
    \/ GetCase /\ EditSheet /\ UNCHANGED <<selVars, getVars, rowVars, evVars, gridVars, liveVars, contactVars, rawEnv>>

SpecVariants == VariantsInit /\ [][VariantsNext]_vars

(***************************************************************************)
(* Properties of selectCampaign (checked under SpecSelect).                *)
(*                                                                         *)
(* The properties state eligibility, weights and the draw in their own     *)
(* terms, on the fields of the campaigns, not through the operators above. *)
(***************************************************************************)
\* Every call is made on Today; of the date strings the inputs carry, the
\* only start date after Today is Tomorrow's and the only end date before
\* Today is Yesterday's.
ClBlocked(c) ==
    /\ c.competitor_group # ""
    /\ \E i \in 1..Len(args.site.blocked_competitor_groups) :
          args.site.blocked_competitor_groups[i] = c.competitor_group
ClOutsideWindow(c) == c.start_date = ToISODate(Tomorrow) \/ c.end_date = ToISODate(Yesterday)
ClEligible(c) == c.status = "active" /\ ~ClOutsideWindow(c) /\ ~ClBlocked(c)

\* The positions of the eligible campaigns in args.campaigns, in list order.
ClEligibleIdx == { i \in 1..Len(args.campaigns) : ClEligible(args.campaigns[i]) }
ClWeight(c) == IF c.weight = 0 THEN 1 ELSE c.weight
\* The summed weight of the eligible campaigns among the first n of the list.
RECURSIVE ClUpTo(_)
ClUpTo(n) ==
    IF n = 0 THEN 0
    ELSE ClUpTo(n - 1) + (IF ClEligible(args.campaigns[n]) THEN ClWeight(args.campaigns[n]) ELSE 0)
ClBefore(i) == ClUpTo(i - 1)
ClTotal == ClUpTo(Len(args.campaigns))
\* The draw is r = rnd * ClTotal / RandDen; position i is hit when
\* ClBefore(i) < r <= ClUpTo(i), or r = 0 and i is the first eligible one.
ClHit(i) ==
    \/ ClBefore(i) * RandDen < rnd * ClTotal /\ rnd * ClTotal <= ClUpTo(i) * RandDen
    \/ rnd = 0 /\ ClBefore(i) = 0
\* Whether the preference names an eligible campaign.
ClPreferenceApplies ==
    /\ args.preferCampaignId # ""
    /\ \E i \in ClEligibleIdx : args.campaigns[i].campaign_id = args.preferCampaignId
ClFirstPreferred ==
    CHOOSE i \in ClEligibleIdx :
        /\ args.campaigns[i].campaign_id = args.preferCampaignId
        /\ \A j \in ClEligibleIdx : args.campaigns[j].campaign_id = args.preferCampaignId => i <= j

\* C6: the campaign returned is never paused and never in a competitor group
\* the site blocks, whatever the weights, the preference and the draw.
C6_NeverPausedNorBlocked ==
    (selPc = "done" /\ selected # << >>) =>
        /\ selected[1].status = "active"
        /\ ~ClBlocked(selected[1])
        /\ \E i \in 1..Len(args.campaigns) : args.campaigns[i] = selected[1]

\* A call whose list holds a blocked campaign of weight 3, which is also the
\* preferred one, before an eligible campaign of weight 1, and the draw is 0.
C6_Witness ==
    /\ selPc = "done"
    /\ Len(args.campaigns) = 2
    /\ ClBlocked(args.campaigns[1]) /\ args.campaigns[1].weight = 3
    /\ args.preferCampaignId = args.campaigns[1].campaign_id
    /\ ClEligible(args.campaigns[2]) /\ args.campaigns[2].weight = 1
    /\ rnd = 0
    /\ selected = <<args.campaigns[2]>>

\* C7: a preference that names an eligible campaign returns that campaign
\* (the first eligible one with that id), whatever the weights and the draw;
\* and resubmitting the id of a returned campaign returns a campaign with
\* that id again, for every draw.
C7_PreferredEligibleIsReturned ==
    selPc = "done" =>
        /\ ClPreferenceApplies => selected = <<args.campaigns[ClFirstPreferred]>>
        /\ selected # << >> =>
              \A k \in 0..(RandDen - 1) :
                 LET again == selectCampaign([args EXCEPT !.preferCampaignId = selected[1].campaign_id], k)
                 IN  again # << >> /\ again[1].campaign_id = selected[1].campaign_id

\* The preferred campaign is eligible, has the smallest weight and is last,
\* and the draw alone would have hit another campaign.
C7_Witness ==
    /\ selPc = "done"
    /\ Len(args.campaigns) = 2
    /\ ClEligibleIdx = {1, 2}
    /\ args.campaigns[1].weight = 3 /\ args.campaigns[2].weight = 1
    /\ args.campaigns[1].campaign_id # args.campaigns[2].campaign_id
    /\ args.preferCampaignId = args.campaigns[2].campaign_id
    /\ ClHit(1)
    /\ selected = <<args.campaigns[2]>>

\* C8: a preference that names no eligible campaign (unknown id, or only
\* paused, out-of-window or blocked campaigns) is ignored: the call returns
\* the eligible campaign the draw hits, which does not have the preferred id.
C8_IneligiblePreferenceFallsBack ==
    (selPc = "done" /\ args.preferCampaignId # "" /\ ~ClPreferenceApplies /\ ClEligibleIdx # {}) =>
        /\ selected # << >>
        /\ selected[1].campaign_id # args.preferCampaignId
        /\ \E i \in ClEligibleIdx : ClHit(i) /\ selected = <<args.campaigns[i]>>

\* The preference names a campaign of the list that is ineligible, and
\* another campaign is returned.
C8_Witness ==
    /\ selPc = "done"
    /\ Len(args.campaigns) = 2
    /\ args.campaigns[1].status = "paused"
    /\ args.campaigns[1].campaign_id = args.preferCampaignId
    /\ args.campaigns[2].campaign_id # args.preferCampaignId
    /\ ClEligibleIdx = {2}
    /\ selected = <<args.campaigns[2]>>

\* C9: without an applicable preference the call returns the first eligible
\* campaign at which the remainder r - (weights so far) is <= 0, for
\* r = rnd * total / RandDen and an absent weight counted as 1: position i
\* is returned exactly for the draws r in (ClBefore(i), ClUpTo(i)] (and r = 0
\* for the first), an interval whose length is the campaign's weight.
C9_WeightedWalk ==
    (selPc = "done" /\ ~ClPreferenceApplies /\ ClEligibleIdx # {}) =>
        /\ \E i \in ClEligibleIdx :
              /\ ClHit(i)
              /\ \A j \in ClEligibleIdx : ClHit(j) => i <= j
              /\ selected = <<args.campaigns[i]>>
        /\ \A i \in ClEligibleIdx :
              /\ ClUpTo(i) - ClBefore(i) = ClWeight(args.campaigns[i])
              /\ ClUpTo(i) <= ClTotal

\* Weights absent (counted 1) and 3: the second campaign is returned on a
\* draw beyond the first one's share.
C9_Witness ==
    /\ selPc = "done"
    /\ args.preferCampaignId = ""
    /\ Len(args.campaigns) = 2
    /\ ClEligibleIdx = {1, 2}
    /\ args.campaigns[1].weight = 0 /\ args.campaigns[2].weight = 3
    /\ args.campaigns[1] # args.campaigns[2]
    /\ rnd * ClTotal > ClUpTo(1) * RandDen
    /\ selected = <<args.campaigns[2]>>

\* C10: the call returns null exactly when no campaign of the list is
\* eligible.
C10_NullIffNoneEligible ==
    selPc = "done" => (selected = << >> <=> ClEligibleIdx = {})

\* A non-empty list with a preference and no eligible campaign: null.
C10_Witness ==
    /\ selPc = "done"
    /\ Len(args.campaigns) = 2
    /\ args.preferCampaignId = args.campaigns[1].campaign_id
    /\ ClOutsideWindow(args.campaigns[1])
    /\ args.campaigns[2].status = "paused"
    /\ selected = << >>

(***************************************************************************)
(* Properties of getInventory (checked under Spec) and of its use by       *)
(* GET /api/sponsor (checked under SpecGet).                               *)
(*                                                                         *)
(* A call that has just finished is in the state "returned" or "threw",    *)
(* with the cache it read at that moment in seen; nothing else has moved   *)
(* since.                                                                  *)
(***************************************************************************)
\* The age, at the start of call c, of the entry the call read when it finished.
ClAge(c) == calls[c].now - calls[c].seen[1].fetchedAt
ClFinished(c) == calls[c].pc \in {"returned", "threw"}
\* Promise.all of the two tab reads rejected.
ClFetchFailed(c) == ClFinished(c) /\ calls[c].settled = "rejected"

\* C1: when the fetch of a call fails and the cache holds an entry stamped
\* less than 300000 ms before the call started, the call returns that
\* entry's value and the cache is what it was.
C1_StaleServedOnFailure ==
    \A c \in Callers :
        (ClFetchFailed(c) /\ calls[c].seen # << >> /\ ClAge(c) < 300000) =>
            /\ calls[c].pc = "returned"
            /\ calls[c].result = <<calls[c].seen[1].value>>
            /\ cache = calls[c].seen

\* A failed fetch answered from an entry that is no longer fresh, whose
\* value the sheet no longer holds.
C1_Witness ==
    \E c \in Callers :
        /\ ClFetchFailed(c) /\ calls[c].ext
        /\ calls[c].seen # << >> /\ ClAge(c) >= 60000 /\ ClAge(c) < 300000
        /\ calls[c].pc = "returned"
        /\ calls[c].result # <<sheet>>

\* C2: a failed fetch with no entry, or with an entry 300 s old or older,
\* makes getInventory throw and GET /api/sponsor answer 500
\* sponsor_fetch_failed; and a 500 is answered only when the cache holds no
\* entry younger than 300 s.
C2_ErrorOnlyWithoutUsableCache ==
    /\ (ClFetchFailed(1) /\ (calls[1].seen = << >> \/ ClAge(1) >= 300000)) =>
          /\ calls[1].pc = "threw"
          /\ req.pc = "done" => (resp.status = 500 /\ resp.error = "sponsor_fetch_failed")
    /\ (req.pc = "done" /\ resp.status = 500) =>
          (calls[1].seen = << >> \/ ClAge(1) >= 300000)

\* C3: a call made while the cache holds an entry less than 60000 ms old
\* returns that entry's value at once, issues no external read and leaves
\* the cache as it is.
C3_FreshHit ==
    [][\A c \in Callers :
          (calls[c].pc = "idle" /\ calls'[c].pc # "idle"
             /\ cache # << >> /\ clock - cache[1].fetchedAt < 60000) =>
                /\ calls'[c].pc = "returned"
                /\ calls'[c].result = <<cache[1].value>>
                /\ ~calls'[c].ext /\ calls'[c].settled = "none"
                /\ cache' = cache]_vars

\* A call answered from an entry that another call's fetch wrote 30 s
\* before, although the sheet has changed and could not have been read.
C3_Witness ==
    \E c \in Callers :
        /\ calls[c].pc = "returned" /\ calls[c].settled = "none" /\ ~calls[c].ext
        /\ calls[c].seen # << >> /\ ClAge(c) = 30000
        /\ calls[c].result = <<calls[c].seen[1].value>>
        /\ calls[c].result # <<sheet>>
        /\ ~env.sheetId
        /\ cache = calls[c].seen

\* C4 as stated: after a successful fetch the cache holds the new inventory
\* stamped with the time of the replacement, and the call returns it.
C4_StampedAtReplacement ==
    \A c \in Callers :
        (ClFinished(c) /\ calls[c].settled = "resolved") =>
            /\ calls[c].pc = "returned"
            /\ calls[c].result = <<sheet>>
            /\ cache = <<[value |-> sheet, fetchedAt |-> clock]>>

\* C4, amended: after a successful fetch the cache holds the new inventory
\* stamped with the time the call read when it started, and the call
\* returns the new inventory.
C4_StampedAtCallStart ==
    \A c \in Callers :
        (ClFinished(c) /\ calls[c].settled = "resolved") =>
            /\ calls[c].pc = "returned"
            /\ calls[c].result = <<sheet>>
            /\ cache = <<[value |-> sheet, fetchedAt |-> calls[c].now]>>
            /\ calls[c].now <= clock

\* A successful fetch that took time and replaced an entry holding another
\* inventory.
C4_Witness ==
    \E c \in Callers :
        /\ ClFinished(c) /\ calls[c].settled = "resolved"
        /\ calls[c].seen # << >> /\ calls[c].seen[1].value # sheet
        /\ calls[c].result = <<sheet>>
        /\ calls[c].now < clock

\* The call found SPONSOR_SHEET_ID absent (it did not get to await), or
\* GOOGLE_SERVICE_ACCOUNT_JSON absent (no external read was issued).
ClEnvAbsent(c) ==
    \/ ClFinished(c) /\ calls[c].settled = "none" /\ ~env.sheetId
    \/ ClFetchFailed(c) /\ ~calls[c].ext

\* C5: a call that finds the spreadsheet identifier or the credential
\* absent returns the cached value when the cache holds an entry younger
\* than 300 s, and throws only otherwise.
C5_AbsentEnvFollowsFailurePolicy ==
    \A c \in Callers :
        ClEnvAbsent(c) =>
            IF calls[c].seen # << >> /\ ClAge(c) < 300000
            THEN calls[c].pc = "returned" /\ calls[c].result = <<calls[c].seen[1].value>>
            ELSE calls[c].pc = "threw"

(***************************************************************************)
(* The date window (checked under SpecWindow).                             *)
(***************************************************************************)
\* Calendar order on dates [y, m, d].
ClDateLeq(a, b) ==
    \/ a.y < b.y
    \/ a.y = b.y /\ a.m < b.m
    \/ a.y = b.y /\ a.m = b.m /\ a.d <= b.d
\* The bound is absent, or it is the date d and d satisfies P.
ClStartOk(c) ==
    c.start_date # << >> => \E d \in WinDates : ToISODate(d) = c.start_date /\ ClDateLeq(d, args.now)
ClEndOk(c) ==
    c.end_date # << >> => \E d \in WinDates : ToISODate(d) = c.end_date /\ ClDateLeq(args.now, d)

\* C11: an active campaign in no blocked group passes the date check, and is
\* selected, exactly when start_date <= today <= end_date in calendar order,
\* today being the UTC date of now, both bounds inclusive and an absent
\* bound not constraining.
C11_DateWindowInclusive ==
    LET c == args.campaigns[1] IN
    /\ isWithinDateWindow(args.now, c.start_date, c.end_date) <=> (ClStartOk(c) /\ ClEndOk(c))
    /\ selPc = "done" => (selected = <<c>> <=> (ClStartOk(c) /\ ClEndOk(c)))
    /\ selPc = "done" => (selected = << >> <=> ~(ClStartOk(c) /\ ClEndOk(c)))

\* A campaign that starts and ends on the day of the call is selected.
C11_Witness ==
    /\ selPc = "done"
    /\ args.campaigns[1].start_date = ToISODate(args.now)
    /\ args.campaigns[1].end_date = ToISODate(args.now)
    /\ args.now = [y |-> 2026, m |-> 10, d |-> 1]
    /\ selected = <<args.campaigns[1]>>

(***************************************************************************)
(* Properties of GET /api/sponsor (checked under SpecGet).                 *)
(*                                                                         *)
(* When the response is ready (req.pc = "done") the call record of caller  *)
(* 1 still holds what getInventory gave the handler.                       *)
(***************************************************************************)
\* The inventory used by the request.
ClInv == calls[1].result[1]
ClGotInventory == req.pc = "done" /\ req.siteId # "" /\ calls[1].pc = "returned"
\* The sites of that inventory that the request names.
ClSites == { i \in 1..Len(ClInv.sites) : ClInv.sites[i].site_id = req.siteId }
ClSiteUnknown == ClSites = {}
ClSiteInactive == \E i \in ClSites : ClInv.sites[i].status # "active"
\* Campaign c is eligible for site s on the day of the request.
ClEligibleFor(c, s) ==
    /\ c.status = "active"
    /\ ~ClOutsideWindow(c)
    /\ ~(c.competitor_group # "" /\
          \E j \in 1..Len(s.blocked_competitor_groups) : s.blocked_competitor_groups[j] = c.competitor_group)
\* The campaigns of the inventory eligible for the site the request names.
ClOffers ==
    { i \in 1..Len(ClInv.campaigns) : \E j \in ClSites : ClEligibleFor(ClInv.campaigns[i], ClInv.sites[j]) }
ClEmpty204 == [status |-> 204, error |-> "", campaignId |-> ""]

\* C12: when the inventory has no site with the given siteId, or that site
\* is not active, or no campaign is eligible for it, the response is 204
\* with no body, the same response in the three cases.
C12_IndistinguishableNoContent ==
    ClGotInventory =>
        /\ ClSiteUnknown => resp = ClEmpty204
        /\ ClSiteInactive => resp = ClEmpty204
        /\ ClOffers = {} => resp = ClEmpty204

\* A paused site of an inventory that holds active campaigns: 204.
C12_Witness ==
    /\ ClGotInventory
    /\ ClSiteInactive
    /\ \E i \in 1..Len(ClInv.campaigns) : ClInv.campaigns[i].status = "active"
    /\ req.preferCampaignId = "b"
    /\ resp = ClEmpty204

\* C13: a 200 response is for a site the inventory holds as active, and
\* carries the id of a campaign of the inventory eligible for that site;
\* with exactly one eligible campaign the response is 200 with its id.
C13_OkOnlyEligible ==
    /\ (req.pc = "done" /\ resp.status = 200) =>
          /\ ClGotInventory
          /\ ~ClSiteUnknown /\ ~ClSiteInactive
          /\ \E i \in ClOffers : ClInv.campaigns[i].campaign_id = resp.campaignId
    /\ (ClGotInventory /\ ~ClSiteUnknown /\ ~ClSiteInactive /\ Cardinality(ClOffers) = 1) =>
          /\ resp.status = 200
          /\ \A i \in ClOffers : resp.campaignId = ClInv.campaigns[i].campaign_id

\* The site blocks the group of the preferred campaign; the one campaign
\* left is answered.
C13_Witness ==
    /\ ClGotInventory
    /\ req.siteId = "s1" /\ req.preferCampaignId = "b"
    /\ Cardinality(ClOffers) = 1
    /\ Len(ClInv.campaigns) = 2
    /\ resp.status = 200 /\ resp.campaignId = "a"

\* C14: a request whose siteId is missing or blank is answered 400 in one
\* step in which no getInventory call is made, no external read is issued
\* and the cache is not written; and only such a request is answered 400.
C14_MissingSiteIdNoInventory ==
    [][/\ (req.pc = "idle" /\ req'.pc # "idle" /\ req'.siteId = "") =>
             /\ req'.pc = "done" /\ resp'.status = 400
             /\ calls' = calls /\ cache' = cache
       /\ (resp.status # 400 /\ resp'.status = 400) => req'.siteId = ""]_vars

\* A 400 given while the cache holds an entry that is no longer fresh.
C14_Witness ==
    /\ req.pc = "done" /\ req.siteId = "" /\ resp.status = 400
    /\ cache # << >> /\ clock - cache[1].fetchedAt >= 60000
    /\ calls[1] = IdleCall

(***************************************************************************)
(* Properties of the rows kept in the inventory and of the body of the 200 *)
(* response (checked under SpecRow).                                       *)
(***************************************************************************)
\* The text of a cell without the white space around it.
ClText(cell) ==
    LET inked == { i \in 1..Len(cell) : cell[i] \notin {9, 10, 13, 32} } IN
    IF inked = {} THEN << >>
    ELSE LET first == CHOOSE i \in inked : \A j \in inked : i <= j
             last == CHOOSE i \in inked : \A j \in inked : j <= i
         IN  [k \in 1..(last - first + 1) |-> cell[first + k - 1]]
\* s starts with the eight characters h t t p s : / /
ClIsHttps(s) ==
    /\ Len(s) >= 8
    /\ s[1] = 104 /\ s[2] = 116 /\ s[3] = 116 /\ s[4] = 112
    /\ s[5] = 115 /\ s[6] = 58 /\ s[7] = 47 /\ s[8] = 47
\* What the claim requires of a row.
ClRowComplete ==
    /\ ClText(row.campaign_id) # << >>
    /\ ClText(row.brand_name) # << >>
    /\ ClText(row.headline) # << >>
    /\ ClText(row.subline) # << >>
    /\ ClIsHttps(ClText(row.site_url))
    /\ ClIsHttps(ClText(row.logo_url))
    /\ ClText(row.cta_label) # << >> => ClIsHttps(ClText(row.cta_url))

\* C20: a row contributes a campaign to the inventory only if it has a
\* campaign_id, brand_name, headline and subline, an https site_url and
\* logo_url and, with a cta_label, an https cta_url; the campaign kept
\* carries these fields as the row gives them, and a row failing any of the
\* conditions contributes nothing.
C20_OnlyCompleteRowsKept ==
    rowPc # "row" =>
        /\ ~ClRowComplete => mapped = << >>
        /\ mapped # << >> =>
              /\ mapped[1].campaign_id = ClText(row.campaign_id)
              /\ mapped[1].brand_name # << >> /\ ClText(row.brand_name) # << >>
              /\ mapped[1].headline # << >> /\ ClText(row.headline) # << >>
              /\ mapped[1].subline # << >> /\ ClText(row.subline) # << >>
              /\ mapped[1].site_url = ClText(row.site_url) /\ ClIsHttps(mapped[1].site_url)
              /\ mapped[1].logo_url = ClText(row.logo_url) /\ ClIsHttps(mapped[1].logo_url)
              /\ mapped[1].cta_label # << >> =>
                    (mapped[1].cta_url = ClText(row.cta_url) /\ ClIsHttps(mapped[1].cta_url))
              /\ (mapped[1].cta_label = << >>) <=> (ClText(row.cta_label) = << >>)

\* A row that lacks nothing but the cta_url its cta_label calls for is
\* absent from the inventory.
C20_Witness ==
    /\ rowPc = "mapped"
    /\ ClText(row.campaign_id) # << >> /\ ClText(row.brand_name) # << >>
    /\ ClText(row.headline) # << >> /\ ClText(row.subline) # << >>
    /\ ClIsHttps(ClText(row.site_url)) /\ ClIsHttps(ClText(row.logo_url))
    /\ row.wa_url = << >> /\ row.ig_url = << >>
    /\ row.cta_label = <<66, 111, 111, 107>> /\ row.cta_url = << >>
    /\ mapped = << >>

\* C15: in the 200 response cta is null exactly when the campaign has no
\* cta_label; otherwise it carries the label, an https url and the type,
\* "custom" when the campaign has none; social is there with whatsappUrl
\* and instagramUrl each null or an https URL.
C15_CtaAndSocialShape ==
    (rowPc = "sent" /\ body # << >>) =>
        LET b == body[1] IN
        /\ (b.cta = << >>) <=> (mapped[1].cta_label = << >>)
        /\ (b.cta = << >>) <=> (ClText(row.cta_label) = << >>)
        /\ b.cta # << >> =>
              /\ b.cta[1].label = mapped[1].cta_label
              /\ ClIsHttps(b.cta[1].url)
              /\ b.cta[1].type = (IF ClText(row.cta_type) = << >>
                                  THEN <<99, 117, 115, 116, 111, 109>> ELSE ClText(row.cta_type))
        /\ DOMAIN b.social = {"whatsappUrl", "instagramUrl"}
        /\ b.social.whatsappUrl # << >> => ClIsHttps(b.social.whatsappUrl[1])
        /\ b.social.instagramUrl # << >> => ClIsHttps(b.social.instagramUrl[1])
        /\ (b.social.whatsappUrl = << >>) <=> (ClText(row.wa_url) = << >>)
        /\ (b.social.instagramUrl = << >>) <=> (ClText(row.ig_url) = << >>)

\* A response with a cta of defaulted type and a long label, no WhatsApp
\* link and an Instagram link.
C15_Witness ==
    /\ rowPc = "sent" /\ body # << >>
    /\ body[1].cta # << >>
    /\ Len(row.cta_label) = 19
    /\ body[1].cta[1].type = <<99, 117, 115, 116, 111, 109>>
    /\ body[1].social.whatsappUrl = << >>
    /\ body[1].social.instagramUrl # << >>

(***************************************************************************)
(* Properties of POST /api/event (checked under SpecEvent, several clients *)
(* and keys, and under SpecRate, one client sending many events).          *)
(*                                                                         *)
(* Every step that handles a request leaves the request and the response   *)
(* in post; a log entry carries the instant its event arrived (serverTs).  *)
(***************************************************************************)
\* Two log entries are for the same (siteId, campaignId, eventType, href).
ClSameKey(a, b) ==
    /\ a.siteId = b.siteId /\ a.campaignId = b.campaignId
    /\ a.eventType = b.eventType /\ a.href = b.href
\* The body of request r parsed and has a siteId, a campaignId and one of
\* the six event types.
ClValidEvent(r) ==
    /\ r.json.ok
    /\ ClText(r.json.siteId) # << >>
    /\ ClText(r.json.campaignId) # << >>
    /\ ClText(r.json.eventType) \in EventTypes

\* C16: no two log entries with the same key are for events that arrived
\* less than 30 s apart; an event discarded as a repetition follows a
\* logged one with its key by less than 30 s and is answered 204.
C16_OneLogEntryPerKeyAndWindow ==
    /\ \A i, j \in 1..Len(evlog) :
          (i < j /\ ClSameKey(evlog[i], evlog[j])) => evlog[j].serverTs - evlog[i].serverTs >= 30000
    /\ post.outcome = "duplicate" =>
          /\ post.status = 204 /\ post.body = ""
          /\ \E i \in 1..Len(evlog) :
                /\ evlog[i].siteId = ClText(post.request.json.siteId)
                /\ evlog[i].campaignId = ClText(post.request.json.campaignId)
                /\ evlog[i].eventType = ClText(post.request.json.eventType)
                /\ evlog[i].href = post.request.json.href
                /\ post.at - evlog[i].serverTs < 30000

\* An event logged for one client is repeated 29999 ms later by another
\* client, with white space around its fields: discarded.
C16_Witness ==
    /\ post.outcome = "duplicate"
    /\ post.at = 30000
    /\ Len(evlog) = 1 /\ evlog[1].serverTs = 1
    /\ evlog[1].ip # getIp(post.request.headers)
    /\ post.request.json.siteId # evlog[1].siteId
    /\ post.status = 204

\* The sum of the counts of a set of history records.
RECURSIVE ClSum(_)
ClSum(recs) ==
    IF recs = {} THEN 0
    ELSE LET x == CHOOSE y \in recs : TRUE IN x.n + ClSum(recs \ {x})

\* C17: at any instant, the events of one client that got past the rate
\* limit in the 60 s before it are at most 120; an event discarded by the
\* rate limit is answered 204 with an empty body.
C17_AtMost120In60s ==
    /\ \A x \in recent : ClSum({ y \in recent : y.ip = x.ip }) <= 120
    /\ post.outcome = "limited" => (post.status = 204 /\ post.body = "")

C19_OnlyValidEventsCount ==
    [][/\ (evlog' # evlog \/ rate' # rate \/ dedupe' # dedupe) => ClValidEvent(post'.request)
       /\ evlog' # evlog =>
             /\ Len(evlog') = Len(evlog) + 1
             /\ SubSeq(evlog', 1, Len(evlog)) = evlog
             /\ evlog'[Len(evlog')].siteId = ClText(post'.request.json.siteId)
             /\ evlog'[Len(evlog')].campaignId = ClText(post'.request.json.campaignId)
             /\ evlog'[Len(evlog')].eventType = ClText(post'.request.json.eventType)
       /\ (post'.outcome \in {"unparsable", "invalid"} /\ post' # post) =>
             (evlog' = evlog /\ rate' = rate /\ dedupe' = dedupe)]_vars

\* An event of an unknown type arrives after a logged one and leaves the
\* log and the tables as they were.
C19_Witness ==
    /\ post.outcome = "invalid"
    /\ post.request.json.eventType = <<99, 108, 105, 99, 107>>
    /\ Len(evlog) = 1 /\ Len(dedupe) = 1
    /\ Len(rate) = 1 /\ rate[1].count = 1

(***************************************************************************)
(* Further properties of the rows kept in the inventory (checked under     *)
(* SpecRow).                                                               *)
(***************************************************************************)
\* C21: a row that has all it needs is kept whatever its wa_url and ig_url
\* are: one of them that is present and not https is dropped from the
\* campaign (undefined), the row is not.
C21_OptionalUrlDropped ==
    (rowPc # "row" /\ ClRowComplete) =>
        /\ mapped # << >>
        /\ ~ClIsHttps(ClText(row.wa_url)) => mapped[1].wa_url = << >>
        /\ ~ClIsHttps(ClText(row.ig_url)) => mapped[1].ig_url = << >>

\* C22: the weight of a campaign of the inventory is an integer >= 1: it is
\* 1 for a weight cell that is empty (0), negative or not a number, and the
\* nearest integer for any other cell (3 for "2.5").
C22_WeightPositiveInteger ==
    (rowPc # "row" /\ mapped # << >>) =>
        /\ mapped[1].weight \in Nat /\ mapped[1].weight >= 1
        /\ row.weight \in {<< >>, <<45, 49>>, <<97, 98, 99>>} => mapped[1].weight = 1
        /\ row.weight = <<50, 46, 53>> => mapped[1].weight = 3

(***************************************************************************)
(* Properties of the inventory built from the two tabs (checked under      *)
(* SpecGrid).                                                              *)
(***************************************************************************)
\* The cell of row i of the network_ads tab in the last column called name,
\* trimmed; empty when the row or the header has no such cell.
ClCell(i, name) ==
    LET cols == { j \in 1..Len(adsValues[1]) : TrimStr(adsValues[1][j]) = name }
    IN  IF cols = {} THEN << >>
        ELSE LET j == CHOOSE j \in cols : \A k \in cols : k <= j
             IN  IF j <= Len(adsValues[i]) THEN TrimStr(adsValues[i][j]) ELSE << >>
\* What row i alone maps to.
ClMapped(i) ==
    mapCampaign(AdsRowOf([name \in {AdsColumns[k] : k \in 1..Len(AdsColumns)} |-> ClCell(i, name)]))
\* The rows below the header that map to a campaign.
ClValidRows == { i \in 2..Len(adsValues) : ClMapped(i) # << >> }

\* C23: the campaigns of the inventory are the campaigns the valid rows below
\* the header map to, one per valid row and in the order of the rows; the
\* header, a row of blanks and an invalid row contribute nothing and do not
\* change what the other rows contribute.
C23_CampaignsAreValidRowsInOrder ==
    gridPc = "built" =>
        /\ Len(built[1].campaigns) = Cardinality(ClValidRows)
        /\ \A i \in ClValidRows :
              built[1].campaigns[1 + Cardinality({j \in ClValidRows : j < i})] = ClMapped(i)[1]

\* C23 witness: an inventory built from a tab with a row of blanks or an
\* invalid row between two valid rows; both valid rows are campaigns.
C23_Witness ==
    /\ gridPc = "built"
    /\ Len(adsValues) = 4
    /\ ClValidRows = {2, 4}
    /\ Len(built[1].campaigns) = 2
    /\ built[1].campaigns[1].campaign_id = <<97>>
    /\ built[1].campaigns[2].campaign_id = <<98>>

\* C24: no two campaigns of an inventory have the same campaign_id and no
\* two sites the same site_id.
C24_IdsUnique ==
    gridPc = "built" =>
        /\ \A i, j \in 1..Len(built[1].campaigns) :
              built[1].campaigns[i].campaign_id = built[1].campaigns[j].campaign_id => i = j
        /\ \A i, j \in 1..Len(built[1].sites) :
              built[1].sites[i].site_id = built[1].sites[j].site_id => i = j

(***************************************************************************)
(* Properties of the cache over time (checked under SpecLive and Spec).    *)
(***************************************************************************)
\* C25: a call whose reads did not fail returns an inventory whose fetch
\* began at the start of the call (its own fetch) or less than 60 s before
\* it (a fresh entry); so a call that starts 60 s or more after the last
\* edit of the spreadsheet returns what the spreadsheet holds.
C25_EditsLiveWithin60s ==
    \A c \in Callers :
        (calls[c].pc = "returned" /\ calls[c].settled # "rejected") =>
            /\ calls[c].settled = "none" =>
                  /\ calls[c].seen # << >>
                  /\ calls[c].result = <<calls[c].seen[1].value>>
                  /\ calls[c].seen[1].fetchedAt >= calls[c].now - 60000
            /\ calls[c].settled = "resolved" =>
                  /\ cache # << >>
                  /\ cache[1].fetchedAt = calls[c].now
                  /\ calls[c].result = <<cache[1].value>>
            /\ (changedAt >= 0 /\ calls[c].now - changedAt >= 60000) =>
                  calls[c].result = <<sheet>>

\* C25 witness: a call that starts 60 s or more after the last edit is
\* served a cached entry, fetched after the edit.
C25_Witness ==
    \E c \in Callers :
        /\ calls[c].pc = "returned" /\ calls[c].settled = "none"
        /\ changedAt >= 0 /\ calls[c].now - changedAt >= 60000
        /\ calls[c].seen # << >> /\ calls[c].seen[1].fetchedAt > changedAt
        /\ calls[c].result = <<sheet>>

\* C26 (checked under SpecServer): a step that handles an event (the
\* response, a table or the log of POST /api/event changes) leaves the
\* inventory cache and every getInventory call as they are, so it starts no
\* fetch; a step of GET /api/sponsor or of getInventory (the request, the
\* response, a call or the cache changes) leaves the rate-limit table, the
\* de-duplication table and the log as they are.
C26_EndpointsShareNoState ==
    [][ /\ (post' # post \/ rate' # rate \/ dedupe' # dedupe \/ evlog' # evlog) =>
              (cache' = cache /\ calls' = calls /\ req' = req /\ resp' = resp)
        /\ (req' # req \/ resp' # resp \/ calls' # calls \/ cache' # cache) =>
              (rate' = rate /\ dedupe' = dedupe /\ evlog' = evlog /\ post' = post) ]_vars

\* C26 witness: an event was logged while a GET awaits the sheet, with an
\* entry in the cache; the entry is as the fetch that wrote it left it.
C26_Witness ==
    /\ post.outcome = "logged" /\ rate # << >> /\ dedupe # << >>
    /\ req.pc = "wait" /\ calls[1].pc = "await"
    /\ cache # << >> /\ cache[1].value \in Inventories

\* The step is the successful end of the fetch of call c.
ClResolves(c) == calls[c].pc = "await" /\ calls'[c].pc = "returned" /\ calls'[c].settled = "resolved"
\* The step is the failed end of the fetch of call c.
ClRejects(c) == calls[c].pc = "await" /\ calls'[c].settled = "rejected"
\* The entry the fetch of call c writes when it succeeds in this step.
ClEntryOf(c) == [value |-> calls'[c].result[1], fetchedAt |-> calls[c].now]

\* C27: the cache is empty or one entry of an inventory and a stamp; it
\* changes only when a fetch succeeds, to the inventory that fetch returns
\* stamped with the start of the same call, whatever it held before; a call
\* whose fetch fails leaves it as it is.
C27_CacheWrittenWholeByOneFetch ==
    [][ /\ cache = << >> \/
              (Len(cache) = 1 /\ DOMAIN cache[1] = {"value", "fetchedAt"}
               /\ cache[1].value \in Inventories /\ cache[1].fetchedAt \in Instants)
        /\ cache' # cache => \E c \in Callers : ClResolves(c) /\ cache' = <<ClEntryOf(c)>>
        /\ \A c \in Callers : ClResolves(c) => cache' = <<ClEntryOf(c)>>
        /\ \A c \in Callers : ClRejects(c) => cache' = cache ]_vars

\* C27 witness: while another call awaits the sheet, a fetch has replaced the
\* entry of another fetch with its own.
C27_Witness ==
    \E c, d \in Callers :
        /\ c # d /\ calls[d].pc = "await"
        /\ calls[c].pc = "returned" /\ calls[c].settled = "resolved"
        /\ calls[c].seen # << >> /\ cache # calls[c].seen
        /\ cache = <<[value |-> calls[c].result[1], fetchedAt |-> calls[c].now]>>

\* C28: a call that starts with both variables present and the cache empty
\* or 60 s old or older issues its own reads of the two tabs, also while
\* other calls await theirs; every fetch that succeeds was issued by its own
\* call and writes the cache.
C28_NoSingleFlight ==
    [][ \A c \in Callers :
          /\ ( /\ calls[c].pc = "idle" /\ calls'[c].pc # "idle"
               /\ env.sheetId /\ env.saJson
               /\ (cache = << >> \/ clock - cache[1].fetchedAt >= 60000) )
             => (calls'[c].pc = "await" /\ calls'[c].ext)
          /\ ClResolves(c) => (calls[c].ext /\ cache' # << >> /\ cache'[1].fetchedAt = calls[c].now) ]_vars

\* C28 witness: two calls await their own reads at the same time.
C28_Witness ==
    /\ calls[1].pc = "await" /\ calls[1].ext
    /\ calls[2].pc = "await" /\ calls[2].ext

\* C29: the stamp of the cache entry never goes down.
C29_FetchedAtNeverDecreases ==
    [][ (cache # << >> /\ cache' # << >>) => cache'[1].fetchedAt >= cache[1].fetchedAt ]_vars

\* C29 (as the code has it): the stamp of the entry is the start of the call
\* whose fetch succeeded last; it goes down exactly when that call began
\* before the stamp of the entry it replaces.
C29_FetchedAtIsStartOfLastWriter ==
    [][ /\ \A c \in Callers : ClResolves(c) => (cache' # << >> /\ cache'[1].fetchedAt = calls[c].now)
        /\ (cache # << >> /\ cache' # << >> /\ cache'[1].fetchedAt < cache[1].fetchedAt) =>
              \E c \in Callers : ClResolves(c) /\ calls[c].now < cache[1].fetchedAt ]_vars

\* C29 witness: a fetch has replaced an entry stamped later than its own
\* start.
C29_Witness ==
    \E c \in Callers :
        /\ calls[c].pc = "returned" /\ calls[c].settled = "resolved"
        /\ calls[c].seen # << >> /\ calls[c].seen[1].fetchedAt > calls[c].now
        /\ cache # << >> /\ cache[1].fetchedAt = calls[c].now

\* C30: a value returned from the cache is that of an entry stamped less
\* than 60000 ms before the start of the call when no read was made, and
\* less than 300000 ms before it when the read failed; with an entry
\* stamped 300000 ms or more before, the call throws.
C30_ServedEntriesWithinWindows ==
    \A c \in Callers :
        /\ (calls[c].pc = "returned" /\ calls[c].settled = "none") =>
              /\ calls[c].seen # << >>
              /\ calls[c].result = <<calls[c].seen[1].value>>
              /\ calls[c].now - calls[c].seen[1].fetchedAt < 60000
        /\ (calls[c].pc = "returned" /\ calls[c].settled = "rejected") =>
              /\ calls[c].seen # << >>
              /\ calls[c].result = <<calls[c].seen[1].value>>
              /\ calls[c].now - calls[c].seen[1].fetchedAt < 300000
        /\ ( /\ calls[c].pc \in {"returned", "threw"} /\ calls[c].settled = "rejected"
             /\ calls[c].seen # << >>
             /\ calls[c].now - calls[c].seen[1].fetchedAt >= 300000 ) => calls[c].pc = "threw"

\* C30 witness: after a failed read a call returns an entry stamped 60000 ms
\* or more, and less than 300000 ms, before its start.
C30_Witness ==
    \E c \in Callers :
        /\ calls[c].pc = "returned" /\ calls[c].settled = "rejected"
        /\ calls[c].seen # << >>
        /\ calls[c].now - calls[c].seen[1].fetchedAt >= 60000
        /\ calls[c].now - calls[c].seen[1].fetchedAt < 300000

(***************************************************************************)
(* Further properties of POST /api/event (checked under SpecPrune and      *)
(* SpecEvent).                                                             *)
(***************************************************************************)
\* The key of the event of request r: its trimmed siteId, campaignId and
\* eventType and its href, joined by "::".
ClKeyOf(r) ==
    ClText(r.json.siteId) \o <<58, 58>> \o ClText(r.json.campaignId) \o <<58, 58>>
        \o ClText(r.json.eventType) \o <<58, 58>> \o r.json.href

\* C31: handling an event leaves the entries of the other keys that were set
\* 30000 ms ago or less in the de-duplication table, in their order, and
\* leaves all entries of the other keys there when the table held fewer than
\* 5000 entries (at most 5000 with the new one); an event is never logged
\* less than 30000 ms after a logged event with its key.
C31_PruneKeepsWindow ==
    [][ /\ post'.request = << >> => dedupe' = dedupe
        /\ post'.request # << >> =>
              LET key == ClKeyOf(post'.request)
                  InWindow(entry) == entry.k # key /\ clock - entry.ts <= 30000
                  Other(entry) == entry.k # key
              IN  /\ SelectSeq(dedupe', InWindow) = SelectSeq(dedupe, InWindow)
                  /\ Len(dedupe) < 5000 => SelectSeq(dedupe', Other) = SelectSeq(dedupe, Other)
        /\ evlog' # evlog =>
              \A i \in 1..Len(evlog) :
                  ClSameKey(evlog[i], evlog'[Len(evlog')]) => clock - evlog[i].serverTs >= 30000 ]_vars

\* C31 witness: a table of 4999 entries, two of them old, took the key of a
\* first event; logging a second event made it 5001 entries and pruned the
\* two old ones; the first event, repeated, is discarded.
C31_Witness ==
    /\ Len(evlog) = 2 /\ Len(dedupe) = 4999
    /\ post.outcome = "duplicate"
    /\ evlog[1].href = post.request.json.href
    /\ \A i \in 1..Len(dedupe) : dedupe[i].ts >= 100000

\* The log entry is for the key of the event of request r.
ClLoggedFor(entry, r) ==
    /\ entry.siteId = ClText(r.json.siteId) /\ entry.campaignId = ClText(r.json.campaignId)
    /\ entry.eventType = ClText(r.json.eventType) /\ entry.href = r.json.href

\* C32 (checked under SpecRepeat): a valid event that is not over its
\* client's rate limit and arrives 30000 ms or more after every logged event
\* with its key is logged, whatever was discarded in between.
C32_DiscardedDoNotExtendWindow ==
    [][ ( /\ post' # post
          /\ ClValidEvent(post'.request)
          /\ post'.outcome # "limited"
          /\ \A i \in 1..Len(evlog) :
                ClLoggedFor(evlog[i], post'.request) => clock - evlog[i].serverTs >= 30000 )
        => ( /\ post'.outcome = "logged"
             /\ Len(evlog') = Len(evlog) + 1
             /\ ClLoggedFor(evlog'[Len(evlog')], post'.request) ) ]_vars

\* C32 witness: an event logged at 1 ms, discarded at 30000 ms, is logged
\* again at 30001 ms, 1 ms after the discarded one.
C32_Witness ==
    /\ post.outcome = "logged" /\ post.at = 30001
    /\ Len(evlog) = 2 /\ evlog[1].serverTs = 1 /\ evlog[2].serverTs = 30001
    /\ ClSameKey(evlog[1], evlog[2])
    /\ \E x \in recent : x.at = 30000

\* C33 (checked under SpecRate): handling a valid event adds one to the
\* count of one client in the rate table, or starts a window for it at
\* count 1, whether the event is then logged, discarded as a repetition or as
\* over the limit; handling an invalid event leaves the table as it is.
C33_ValidEventsConsumeQuota ==
    [][ clock' = clock =>
          /\ ClValidEvent(post'.request) =>
                \E i \in 1..Len(rate') :
                    /\ \A j \in 1..Len(rate) : j # i => rate'[j] = rate[j]
                    /\ \/ /\ i <= Len(rate)
                          /\ rate'[i].count = rate[i].count + 1
                          /\ rate'[i].windowStart = rate[i].windowStart
                       \/ /\ rate'[i].count = 1
                          /\ rate'[i].windowStart = clock
          /\ ~ClValidEvent(post'.request) => rate' = rate ]_vars

\* C33 witness: an event is over the limit of 120 although one event only
\* was logged: the other events counted were discarded as repetitions.
C33_Witness ==
    /\ post.outcome = "limited"
    /\ Len(evlog) = 1
    /\ Len(rate) = 1 /\ rate[1].count = 121

\* C34 (checked under SpecEvent): a valid event is not logged when an event
\* with its key was logged less than 30000 ms before, by whatever client; so
\* no two log entries with the same key and different clients are less than
\* 30000 ms apart.
C34_DedupeAcrossClients ==
    [][ /\ ( /\ clock' = clock
             /\ ClValidEvent(post'.request)
             /\ \E i \in 1..Len(evlog) :
                   /\ ClLoggedFor(evlog[i], post'.request)
                   /\ evlog[i].ip # getIp(post'.request.headers)
                   /\ clock - evlog[i].serverTs < 30000 )
           => (evlog' = evlog /\ dedupe' = dedupe /\ post'.outcome \in {"duplicate", "limited"})
        /\ \A i, j \in 1..Len(evlog') :
              (i < j /\ ClSameKey(evlog'[i], evlog'[j]) /\ evlog'[i].ip # evlog'[j].ip)
                  => evlog'[j].serverTs - evlog'[i].serverTs >= 30000 ]_vars

\* C34 witness: at the instant one client's event is logged, the same event
\* sent by another client is discarded.
C34_Witness ==
    /\ post.outcome = "duplicate"
    /\ Len(evlog) = 1 /\ evlog[1].serverTs = post.at
    /\ ClLoggedFor(evlog[1], post.request)
    /\ evlog[1].ip # getIp(post.request.headers)
    /\ Len(rate) = 2

\* The calls of selectCampaign that differ from the call a in the
\* target_groups of the campaigns and in the groups of the site only.
ClRegrouped(a) ==
    { [a EXCEPT !.campaigns = [i \in 1..Len(a.campaigns) |-> [a.campaigns[i] EXCEPT !.target_groups = tg[i]]],
                !.site.groups = g] :
         tg \in [1..Len(a.campaigns) -> TargetGroups], g \in SiteGroups }
\* The positions of the eligible campaigns of a call.
ClEligibleAt(a) == { i \in 1..Len(a.campaigns) : IsEligible(a.campaigns[i], a.site, a.now) }
\* A selection without the target_groups of the selected campaign.
ClUngrouped(s) == IF s = << >> THEN << >> ELSE <<[s[1] EXCEPT !.target_groups = << >>]>>

\* C35 (checked under SpecGroups): a call of selectCampaign and every call
\* that differs from it in target_groups and site groups only have the same
\* eligible campaigns and, with the same random draw and preference, select
\* the same campaign.
C35_SelectionIgnoresGroups ==
    selPc = "done" =>
        \A other \in ClRegrouped(args) :
            /\ ClEligibleAt(other) = ClEligibleAt(args)
            /\ ClUngrouped(selectCampaign(other, rnd)) = ClUngrouped(selected)

\* C35 witness: of two campaigns the one targeted at group "X" is selected
\* on a site that belongs to no group.
C35_Witness ==
    /\ selPc = "done" /\ Len(args.campaigns) = 2
    /\ selected # << >> /\ selected[1].target_groups = <<"X">>
    /\ args.site.groups = << >>
    /\ args.campaigns[1].target_groups = << >>
    /\ ClEligibleAt(args) = {1, 2}

\* C36 (checked under SpecGetFair): every request that waits for the
\* inventory is eventually answered, an answered request has one of the
\* statuses 400, 204, 200, 500, and the response of a request is written
\* once: it changes only from none to the response, and back to none when
\* the request is closed.
C36_EveryRequestAnsweredOnce ==
    /\ (req.pc = "wait") ~> (req.pc = "done" /\ resp.status \in {204, 200, 500})
    /\ [](req.pc = "done" => resp.status \in {400, 204, 200, 500})
    /\ [](req.pc # "done" => resp = NoResp)
    /\ [][resp' # resp => (req.pc # "done" /\ req'.pc = "done") \/ (req.pc = "done" /\ req'.pc = "idle")]_vars

\* C36 witness: the reads of the spreadsheet failed with no usable cache
\* entry, and the request is answered 500.
C36_Witness ==
    /\ req.pc = "done" /\ resp.status = 500
    /\ calls[1].settled = "rejected" /\ calls[1].pc = "threw"
    /\ clock > 0

\* The owner mails of a request.
ClOwnerMails(n) == { i \in 1..Len(mailbox) : mailbox[i].kind = "owner" /\ mailbox[i].request = n }

\* C37 (checked under SpecContact): a step that sends mail is either the
\* creation of a request, which sends the verification mail to the sender
\* and nothing to the owner, or the notification of the owner by an
\* execution of verify_email that presented the token of the request not
\* later than token_expires_at, the verified flag of the row being set.
C37_NotifiedOnlyAfterVerification ==
    [][ mailbox' # mailbox =>
          \/ /\ Len(contactSheet') = Len(contactSheet) + 1
             /\ Len(mailbox') = Len(mailbox) + 1
             /\ SubSeq(mailbox', 1, Len(mailbox)) = mailbox
             /\ mailbox'[Len(mailbox')].kind = "verification"
             /\ ~contactSheet'[Len(contactSheet')].verified
          \/ /\ contactSheet' = contactSheet
             /\ Len(mailbox') = Len(mailbox) + 1
             /\ SubSeq(mailbox', 1, Len(mailbox)) = mailbox
             /\ LET mail == mailbox'[Len(mailbox')] IN
                /\ mail.kind = "owner"
                /\ mail.request \in 1..Len(contactSheet)
                /\ contactSheet[mail.request].verified
                /\ \E p \in 1..MaxVerifiers :
                      /\ verifier[p].pc # "done" /\ verifier'[p].pc = "done"
                      /\ verifier[p].token = contactSheet[mail.request].token
                      /\ verifier[p].now <= contactSheet[mail.request].token_expires_at ]_vars

\* C37 witness: the owner has been notified of a request verified at the last
\* instant of its token, while another request is still unverified.
C37_Witness ==
    /\ Len(contactSheet) = 2
    /\ ClOwnerMails(1) # {} /\ ClOwnerMails(2) = {}
    /\ contactSheet[1].verified /\ ~contactSheet[2].verified
    /\ contactSheet[1].verified_at = <<contactSheet[1].token_expires_at>>

\* C38 (checked under SpecContact): the owner is sent at most one mail for
\* each contact request.
C38_NotifiedAtMostOnce ==
    \A n \in 1..Len(contactSheet) : Cardinality(ClOwnerMails(n)) <= 1

\* The pure functions of the first variant, applied in the state, give
\* what those of the second variant give on the same inputs.
ClPureAgree ==
    /\ rowPc = "mapped" => mapped = mapCampaignV2(RowObject(row))
    /\ gridPc = "built" => built = <<InventoryOfV2(adsValues, sitesValues)>>
    /\ selPc = "done" => selected = selectCampaignV2(args, rnd)
\* How the reads of the second variant can end, given the finished call of
\* the first: as they ended for the first when it made them, either way
\* when it made none.
ClOutcomes == IF calls[1].ext THEN {calls[1].settled} ELSE {"resolved", "rejected"}
\* The finished call of the first variant and the cache it leaves are what
\* the second variant gives on the cache the call found.
ClGetInventoryAgrees ==
    calls[1].pc \in {"returned", "threw"} =>
        \A outcome \in ClOutcomes :
            LET v2 == getInventoryV2(rawEnv, calls[1].seen, calls[1].now, outcome, sheet) IN
            /\ v2.threw = (calls[1].pc = "threw")
            /\ v2.result = calls[1].result
            /\ v2.cache = cache
\* import.meta.env defines neither variable.
ClNoViteEnv == rawEnv.vite.sheetId = << >> /\ rawEnv.vite.saJson = << >>

\* C39 as stated (checked under SpecVariants): on the same inputs the two
\* variants give the same results of mapCampaign, mapSite, selectCampaign
\* and getInventory and leave the same cache, whatever import.meta.env
\* holds.
C39_VariantsEquivalent == ClPureAgree /\ ClGetInventoryAgrees

\* C39 amended (checked under SpecVariants): the two variants give the same
\* results of mapCampaign, mapSite and selectCampaign on every input, and
\* the same result of getInventory and the same cache whenever
\* import.meta.env defines neither SPONSOR_SHEET_ID nor
\* GOOGLE_SERVICE_ACCOUNT_JSON.
C39_VariantsEquivalentWithoutViteEnv == ClPureAgree /\ (ClNoViteEnv => ClGetInventoryAgrees)

\* C39 witness: with both variables in process.env only, a call 60 s after
\* the last fetch has fetched again and replaced the cache entry.
C39_Witness ==
    /\ ClNoViteEnv /\ rawEnv.node.sheetId = <<"x">> /\ rawEnv.node.saJson = <<"x">>
    /\ calls[1].pc = "returned" /\ calls[1].settled = "resolved"
    /\ calls[1].seen # << >> /\ calls[1].now - calls[1].seen[1].fetchedAt = TTL_MS
    /\ cache # calls[1].seen
====
